---- MODULE Spec2Model ----
(***************************************************************************)
(* A model of the gsm-operator reconcile loop: the GSMSecret controller    *)
(* (Reconcile, applySecret, setStatusCondition), the secretMaterializer    *)
(* pipeline (resolvePayloads, fetchSecretEntriesPayloads,                  *)
(* mapKeysToSecretKeyMappings, buildOpaqueSecret) and the two API stores   *)
(* it talks to (the cluster API server and Google Secret Manager).         *)
(*                                                                         *)
(* Go strings and byte slices are sequences of one-character strings, so   *)
(* that trimming, prefix tests, the key pattern, number parsing and JSON   *)
(* quoting are computed character by character.                            *)
(***************************************************************************)
EXTENDS Integers, Sequences, FiniteSets, TLC

VARIABLES
    env,        \* the operator process's environment variables
    gsm,        \* API server: GSMSecret objects by name (or NotFound)
    secrets,    \* API server: the target Secret object (or NotFound)
    gsmStore,   \* Google Secret Manager: payload bytes by resource name
    rvCounter,  \* API server: last resourceVersion handed out
    now,        \* wall clock read by metav1.Now()
    rec,        \* per request: the in-flight Reconcile invocation
    hist,       \* per request: successful applies since the Secret was last
                \* written by anybody else (history, read by no action)
    runsLeft,   \* Reconcile invocations the model may still start
    extLeft,    \* events from outside (other clients' writes, clock ticks) the
                \* model may still take
    input,      \* FnSpec: the arguments a helper or watch predicate is given
    output,     \* FnSpec: what it returned
    kube,       \* process-wide: kubeClientOnce, kubeClient and kubeClientErr
    work,       \* AuthSpec: per worker goroutine, its Reconcile invocation
    mgr         \* MgrSpec: the controller's work queue, timers and informers

vars ==
    <<env, gsm, secrets, gsmStore, rvCounter, now, rec, hist, runsLeft, extLeft,
      input, output, kube, work, mgr>>

----------------------------------------------------------------------------
(* Bounds of the model.                                                    *)

MaxRuns == 2       \* Reconcile invocations in a behaviour
MaxExt == 1        \* steps of other API clients, the store and the clock
MaxEntries == 2    \* spec.gsmSecrets entries of a GSMSecret of PipeSpec

----------------------------------------------------------------------------
(* Strings.                                                                *)

Digit == {"0", "1", "2", "3", "4", "5", "6", "7", "8", "9"}
Upper == {"A", "B", "C", "D", "E", "F", "G", "H", "I", "J", "K", "L", "M",
          "N", "O", "P", "Q", "R", "S", "T", "U", "V", "W", "X", "Y", "Z"}
Lower == {"a", "b", "c", "d", "e", "f", "g", "h", "i", "j", "k", "l", "m",
          "n", "o", "p", "q", "r", "s", "t", "u", "v", "w", "x", "y", "z"}
Space == {" ", "\t", "\n", "\r"}

DigitVal(c) ==
    CASE c = "0" -> 0 [] c = "1" -> 1 [] c = "2" -> 2 [] c = "3" -> 3
      [] c = "4" -> 4 [] c = "5" -> 5 [] c = "6" -> 6 [] c = "7" -> 7
      [] c = "8" -> 8 [] c = "9" -> 9

\* strings.TrimSpace
RECURSIVE TrimLeft(_)
TrimLeft(s) == IF s # <<>> /\ Head(s) \in Space THEN TrimLeft(Tail(s)) ELSE s
RECURSIVE TrimRight(_)
TrimRight(s) ==
    IF s # <<>> /\ s[Len(s)] \in Space THEN TrimRight(SubSeq(s, 1, Len(s) - 1)) ELSE s
TrimSpace(s) == TrimRight(TrimLeft(s))

\* strings.HasPrefix
HasPrefix(s, p) == Len(s) >= Len(p) /\ SubSeq(s, 1, Len(p)) = p

\* the value of a string of decimal digits
RECURSIVE DigitsVal(_)
DigitsVal(s) ==
    IF s = <<>> THEN 0 ELSE 10 * DigitsVal(SubSeq(s, 1, Len(s) - 1)) + DigitVal(s[Len(s)])

\* strconv.Atoi: an optional sign, then one or more decimal digits
Atoi(s) ==
    LET signed == s # <<>> /\ Head(s) \in {"+", "-"}
        body == IF signed THEN Tail(s) ELSE s
    IN  IF body = <<>> \/ \E i \in 1..Len(body) : body[i] \notin Digit
        THEN [ok |-> FALSE, val |-> 0]
        ELSE [ok |-> TRUE,
              val |-> IF signed /\ Head(s) = "-" THEN 0 - DigitsVal(body) ELSE DigitsVal(body)]

\* strconv.Itoa for n >= 0
RECURSIVE Itoa(_)
Itoa(n) ==
    LET d == <<"0", "1", "2", "3", "4", "5", "6", "7", "8", "9">>[(n % 10) + 1]
    IN  IF n < 10 THEN <<d>> ELSE Itoa(n \div 10) \o <<d>>

----------------------------------------------------------------------------
(* Decimal numbers of any size, as strings of digits without leading       *)
(* zeros: the values of uint64, int64 and time.Duration, whose width the    *)
(* integers of the checker do not reach.                                    *)

DigitChar(n) == <<"0", "1", "2", "3", "4", "5", "6", "7", "8", "9">>[n + 1]

RECURSIVE StripZeros(_)
StripZeros(s) == IF Len(s) > 1 /\ Head(s) = "0" THEN StripZeros(Tail(s)) ELSE s

\* a < b, for digit strings of the same length
RECURSIVE LexLess(_, _)
LexLess(a, b) ==
    IF a = <<>> THEN FALSE
    ELSE IF Head(a) # Head(b) THEN DigitVal(Head(a)) < DigitVal(Head(b))
    ELSE LexLess(Tail(a), Tail(b))

DecLess(a, b) == Len(a) < Len(b) \/ (Len(a) = Len(b) /\ LexLess(a, b))

\* a - b for a >= b, from the last digit on, borrow being 0 or 1 (acc has
\* i - 1 digits: the test computes it before the next digit is taken)
RECURSIVE SubFrom(_, _, _, _, _)
SubFrom(a, b, i, borrow, acc) ==
    IF i > Len(a) \/ Len(acc) # i - 1 THEN StripZeros(acc)
    ELSE LET x == DigitVal(a[Len(a) + 1 - i])
             y == (IF i <= Len(b) THEN DigitVal(b[Len(b) + 1 - i]) ELSE 0) + borrow
         IN  IF x >= y THEN SubFrom(a, b, i + 1, 0, <<DigitChar(x - y)>> \o acc)
             ELSE SubFrom(a, b, i + 1, 1, <<DigitChar(x + 10 - y)>> \o acc)
DecSub(a, b) == SubFrom(a, b, 1, 0, <<>>)

MaxUint64 == <<"1", "8", "4", "4", "6", "7", "4", "4", "0", "7", "3", "7", "0", "9", "5", "5", "1", "6", "1", "5">>
MaxInt64 == <<"9", "2", "2", "3", "3", "7", "2", "0", "3", "6", "8", "5", "4", "7", "7", "5", "8", "0", "7">>
TwoTo63 == <<"9", "2", "2", "3", "3", "7", "2", "0", "3", "6", "8", "5", "4", "7", "7", "5", "8", "0", "8">>
TwoTo64 == <<"1", "8", "4", "4", "6", "7", "4", "4", "0", "7", "3", "7", "0", "9", "5", "5", "1", "6", "1", "6">>

\* r modulo 2^64, for r below ten times 2^64
RECURSIVE Reduce(_)
Reduce(r) == IF DecLess(r, TwoTo64) THEN r ELSE Reduce(DecSub(r, TwoTo64))

\* x modulo 2^64, digit by digit: r is the remainder of the first i - 1
\* digits (never empty: the test computes it before the next digit is taken)
RECURSIVE ModFrom(_, _, _)
ModFrom(x, i, r) ==
    IF i > Len(x) \/ r = <<>> THEN r ELSE ModFrom(x, i + 1, Reduce(StripZeros(r \o <<x[i]>>)))
Mod64(x) == ModFrom(x, 1, <<"0">>)

\* the int64 an arithmetic result x >= 0 is stored as: x modulo 2^64, read
\* in two's complement
Int64Of(x) ==
    IF DecLess(Mod64(x), TwoTo63)
    THEN [neg |-> FALSE, digits |-> Mod64(x)]
    ELSE [neg |-> TRUE, digits |-> DecSub(TwoTo64, Mod64(x))]

\* time.Duration(seconds) * time.Second, in nanoseconds
Seconds(digits) ==
    Int64Of(IF digits = <<"0">> THEN digits
            ELSE digits \o <<"0", "0", "0", "0", "0", "0", "0", "0", "0">>)

\* d > 0, for a time.Duration
Positive(d) == ~d.neg /\ d.digits # <<"0">>

\* strconv.ParseUint(s, 10, 64): one or more digits, at most 2^64 - 1
ParseUint(s) ==
    IF s = <<>> \/ \E i \in 1..Len(s) : s[i] \notin Digit
    THEN [ok |-> FALSE, digits |-> <<"0">>]
    ELSE IF DecLess(MaxUint64, StripZeros(s)) THEN [ok |-> FALSE, digits |-> MaxUint64]
    ELSE [ok |-> TRUE, digits |-> StripZeros(s)]

\* strconv.Atoi for a value of any size: an optional sign, one or more
\* digits, within int64
AtoiWide(s) ==
    LET signed == s # <<>> /\ Head(s) \in {"+", "-"}
        body == IF signed THEN Tail(s) ELSE s
        neg == signed /\ Head(s) = "-"
    IN  IF body = <<>> \/ \E i \in 1..Len(body) : body[i] \notin Digit
        THEN [ok |-> FALSE, neg |-> FALSE, digits |-> <<"0">>]
        ELSE IF DecLess(IF neg THEN TwoTo63 ELSE MaxInt64, StripZeros(body))
        THEN [ok |-> FALSE, neg |-> neg, digits |-> IF neg THEN TwoTo63 ELSE MaxInt64]
        ELSE [ok |-> TRUE, neg |-> neg /\ StripZeros(body) # <<"0">>,
              digits |-> StripZeros(body)]

----------------------------------------------------------------------------
(* JSON: encoding/json into interface{} and back, and RFC 6901 pointers.   *)
(* The documents of the model are strings, non-negative integers and       *)
(* objects, written without white space or escapes.                        *)

JString(s) == [t |-> "string", s |-> s, n |-> 0, m |-> <<>>]
JNumber(n) == [t |-> "number", s |-> <<>>, n |-> n, m |-> <<>>]
JObject(m) == [t |-> "object", s |-> <<>>, n |-> 0, m |-> m]
JFail == [ok |-> FALSE, v |-> JNumber(0), next |-> 0]

\* the first position >= i holding character c, or 0
RECURSIVE IndexFrom(_, _, _)
IndexFrom(s, c, i) ==
    IF i > Len(s) THEN 0 ELSE IF s[i] = c THEN i ELSE IndexFrom(s, c, i + 1)

\* the end of the run of digits that starts at i
RECURSIVE DigitsEnd(_, _)
DigitsEnd(s, i) == IF i < Len(s) /\ s[i + 1] \in Digit THEN DigitsEnd(s, i + 1) ELSE i

ParseString(s, i) ==
    LET j == IndexFrom(s, "\"", i + 1)
    IN  IF i > Len(s) \/ s[i] # "\"" \/ j = 0 THEN JFail
        ELSE [ok |-> TRUE, v |-> JString(SubSeq(s, i + 1, j - 1)), next |-> j + 1]

\* the number whose digits start at i
ParseNumber(s, i) ==
    [ok |-> TRUE, v |-> JNumber(DigitsVal(SubSeq(s, i, DigitsEnd(s, i)))),
     next |-> DigitsEnd(s, i) + 1]

RECURSIVE ParseValue(_, _), ParseMembers(_, _, _)

\* after member name and its value v: the next member, or the object's end;
\* a repeated name keeps the last value
ParseMemberEnd(s, name, v, acc) ==
    IF ~v.ok \/ v.next > Len(s) THEN JFail
    ELSE IF s[v.next] = "," THEN ParseMembers(s, v.next + 1, (name :> v.v) @@ acc)
    ELSE IF s[v.next] = "}"
    THEN [ok |-> TRUE, v |-> JObject((name :> v.v) @@ acc), next |-> v.next + 1]
    ELSE JFail

\* after the member name k: a colon and the member's value
ParseMemberValue(s, k, acc) ==
    IF ~k.ok \/ k.next > Len(s) \/ s[k.next] # ":" THEN JFail
    ELSE ParseMemberEnd(s, k.v.s, ParseValue(s, k.next + 1), acc)

\* the members of an object from i on, acc those already read
ParseMembers(s, i, acc) == ParseMemberValue(s, ParseString(s, i), acc)

\* the value that starts at i: a string, a number or an object
ParseValue(s, i) ==
    IF i > Len(s) THEN JFail
    ELSE IF s[i] = "\"" THEN ParseString(s, i)
    ELSE IF s[i] \in Digit THEN ParseNumber(s, i)
    ELSE IF s[i] = "{"
    THEN IF i < Len(s) /\ s[i + 1] = "}"
         THEN [ok |-> TRUE, v |-> JObject(<<>>), next |-> i + 2]
         ELSE ParseMembers(s, i + 1, <<>>)
    ELSE JFail

\* the whole of data must be one value
WholeValue(data, r) ==
    IF r.ok /\ r.next = Len(data) + 1
    THEN [ok |-> TRUE, v |-> r.v] ELSE [ok |-> FALSE, v |-> JNumber(0)]

\* json.Unmarshal(data, &payload) with payload an interface{}
jsonUnmarshal(data) == WholeValue(data, ParseValue(data, 1))

\* a json.Marshal that writes a string without its quotes
jsonMarshalBare(v) ==
    IF v.t = "string" THEN v.s ELSE Itoa(v.n)

\* json.Marshal of a decoded string or number (a string is written in quotes)
jsonMarshal(v) ==
    IF v.t = "string" THEN <<"\"">> \o v.s \o <<"\"">> ELSE Itoa(v.n)

\* the reference tokens of a pointer body ("a/b" -> <<"a", "b">>)
RECURSIVE SplitSlash(_)
SplitSlash(s) ==
    LET j == IndexFrom(s, "/", 1)
    IN  IF j = 0 THEN <<s>>
        ELSE <<SubSeq(s, 1, j - 1)>> \o SplitSlash(SubSeq(s, j + 1, Len(s)))

RECURSIVE Walk(_, _)
Walk(doc, tokens) ==
    IF tokens = <<>> THEN [ok |-> TRUE, v |-> doc]
    ELSE IF doc.t = "object" /\ Head(tokens) \in DOMAIN doc.m
         THEN Walk(doc.m[Head(tokens)], Tail(tokens))
         ELSE [ok |-> FALSE, v |-> JNumber(0)]

\* jsonpointer.GetByPointer(payload, pointer)
GetByPointer(doc, pointer) ==
    IF pointer = <<>> THEN [ok |-> TRUE, v |-> doc]
    ELSE IF Head(pointer) # "/" THEN [ok |-> FALSE, v |-> JNumber(0)]
    ELSE Walk(doc, SplitSlash(Tail(pointer)))

----------------------------------------------------------------------------
(* The secretMaterializer pipeline.                                        *)

Nil == "nil"    \* a nil error

\* secretKeyRegex, ^[A-Za-z0-9._-]+$
secretKeyRegexMatch(key) ==
    /\ key # <<>>
    /\ \A i \in 1..Len(key) : key[i] \in Upper \cup Lower \cup Digit \cup {".", "_", "-"}

\* a newKeyedSecretPayload that takes any key
keyedSecretPayloadUnchecked(key, value) ==
    [err |-> Nil, payload |-> [Key |-> key, Value |-> value]]

\* newKeyedSecretPayload(key, value)
newKeyedSecretPayload(key, value) ==
    IF secretKeyRegexMatch(key)
    THEN [err |-> Nil, payload |-> [Key |-> key, Value |-> value]]
    ELSE [err |-> "invalid secret key", payload |-> [Key |-> <<>>, Value |-> <<>>]]

\* extractStringAtPointer(payload, pointer)
extractStringAtPointer(payload, pointer) ==
    LET val == GetByPointer(payload, pointer)
    IN  IF ~val.ok THEN [err |-> "pointer not found", s |-> <<>>]
        ELSE IF val.v.t # "string" THEN [err |-> "value is not a string", s |-> <<>>]
        ELSE [err |-> Nil, s |-> val.v.s]

\* the body of mapKeysToSecretKeyMappings's loop, from mapping i on
RECURSIVE mapKeysLoop(_, _, _, _)
mapKeysLoop(payload, mappings, i, results) ==
    IF i > Len(mappings) THEN [err |-> Nil, payloads |-> results]
    ELSE
    LET mapping == mappings[i]
        isPointer == HasPrefix(mapping.Key, <<"/">>)
        resolvedKey == extractStringAtPointer(payload, mapping.Key)
        targetKey == IF isPointer THEN resolvedKey.s ELSE mapping.Key
        value == GetByPointer(payload, mapping.Value)
        encoded == jsonMarshal(value.v)
        keyed == newKeyedSecretPayload(targetKey, encoded)
    IN  IF TrimSpace(mapping.Key) = <<>>
        THEN [err |-> "mapping key cannot be empty", payloads |-> <<>>]
        ELSE IF TrimSpace(mapping.Value) = <<>>
        THEN [err |-> "mapping value cannot be empty", payloads |-> <<>>]
        ELSE IF isPointer /\ resolvedKey.err # Nil
        THEN [err |-> "resolve key pointer", payloads |-> <<>>]
        ELSE IF isPointer /\ ~secretKeyRegexMatch(resolvedKey.s)
        THEN [err |-> "resolved key does not match", payloads |-> <<>>]
        ELSE IF ~value.ok
        THEN [err |-> "extract", payloads |-> <<>>]
        ELSE IF keyed.err # Nil
        THEN [err |-> "validate key", payloads |-> <<>>]
        ELSE mapKeysLoop(payload, mappings, i + 1, Append(results, keyed.payload))

\* mapKeysToSecretKeyMappings(data, mappings)
mapKeysToSecretKeyMappings(data, mappings) ==
    LET payload == jsonUnmarshal(data)
    IN  IF ~payload.ok THEN [err |-> "decode secret payload as JSON", payloads |-> <<>>]
        ELSE mapKeysLoop(payload.v, mappings, 1, <<>>)

\* fmt.Sprintf("projects/%s/secrets/%s/versions/%s", ...)
secretVersionName(e) ==
    <<"p", "r", "o", "j", "e", "c", "t", "s", "/">> \o e.ProjectID
        \o <<"/", "s", "e", "c", "r", "e", "t", "s", "/">> \o e.SecretID
        \o <<"/", "v", "e", "r", "s", "i", "o", "n", "s", "/">> \o e.Version

\* accessSecretPayload(ctx, client, name): the version's bytes, or the error
\* of AccessSecretVersion (no such version, or the call failing: unavailable)
accessSecretPayload(store, name, unavailable) ==
    IF unavailable \/ name \notin DOMAIN store
    THEN [err |-> "AccessSecretVersion", data |-> <<>>]
    ELSE [err |-> Nil, data |-> store[name]]

\* the body of fetchSecretEntriesPayloads's loop, from entry i on; failAt is
\* the entry whose AccessSecretVersion call fails (0: none does)
RECURSIVE fetchLoop(_, _, _, _, _)
fetchLoop(entries, store, failAt, i, results) ==
    IF i > Len(entries) THEN [err |-> Nil, payloads |-> results, fetched |-> i - 1]
    ELSE
    LET e == entries[i]
        got == accessSecretPayload(store, secretVersionName(e), failAt = i)
        single == newKeyedSecretPayload(e.Key, got.data)
        mapped == mapKeysToSecretKeyMappings(got.data, e.Keys)
    IN  IF e.Key # <<>> /\ Len(e.Keys) > 0
        THEN [err |-> "invalid GSMSecret entry: cannot set both key and keys",
              payloads |-> <<>>, fetched |-> i - 1]
        ELSE IF got.err # Nil
        THEN [err |-> "fetch payload", payloads |-> <<>>, fetched |-> i]
        ELSE IF e.Key # <<>>
        THEN IF single.err # Nil
             THEN [err |-> "validate key", payloads |-> <<>>, fetched |-> i]
             ELSE fetchLoop(entries, store, failAt, i + 1, Append(results, single.payload))
        ELSE IF Len(e.Keys) > 0
        THEN IF mapped.err # Nil
             THEN [err |-> "map key mappings", payloads |-> <<>>, fetched |-> i]
             ELSE fetchLoop(entries, store, failAt, i + 1, results \o mapped.payloads)
        ELSE [err |-> "invalid GSMSecret entry: either key or keys must be set",
              payloads |-> <<>>, fetched |-> i]

\* a fetchSecretEntriesPayloads that passes over the entries with both a key
\* and mappings, or with neither
fetchSecretEntriesSkipInvalid(entries, store, failAt) ==
    fetchLoop(SelectSeq(entries, LAMBDA e : (e.Key # <<>>) # (Len(e.Keys) > 0)),
              store, failAt, 1, <<>>)

\* fetchSecretEntriesPayloads(ctx, client)
fetchSecretEntriesPayloads(entries, store, failAt) ==
    fetchLoop(entries, store, failAt, 1, <<>>)

\* buildData keeping the first value of a repeated key
RECURSIVE buildDataFirstWins(_, _, _)
buildDataFirstWins(payloads, i, data) ==
    IF i > Len(payloads) THEN [err |-> Nil, data |-> data]
    ELSE IF payloads[i].Key = <<>> THEN [err |-> "payload has empty key", data |-> <<>>]
    ELSE buildDataFirstWins(payloads, i + 1, data @@ (payloads[i].Key :> payloads[i].Value))

\* the data map buildOpaqueSecret's loop leaves after payloads i..
RECURSIVE buildData(_, _, _)
buildData(payloads, i, data) ==
    IF i > Len(payloads) THEN [err |-> Nil, data |-> data]
    ELSE IF payloads[i].Key = <<>> THEN [err |-> "payload has empty key", data |-> <<>>]
    ELSE buildData(payloads, i + 1, (payloads[i].Key :> payloads[i].Value) @@ data)

SecretTypeTLS == "kubernetes.io/tls"
SecretTypeOpaque == "Opaque"

\* buildOpaqueSecret(ctx): the Secret named by spec.targetSecret in the
\* GSMSecret's namespace, with no labels, annotations or owner references
buildOpaqueSecret(gsmSecret, payloads) ==
    LET built == buildData(payloads, 1, <<>>)
    IN  IF built.err # Nil THEN [err |-> built.err, secret |-> <<>>]
        ELSE [err |-> Nil,
              secret |-> [Name |-> gsmSecret.Spec.TargetSecret,
                          Namespace |-> gsmSecret.Namespace,
                          Type |-> SecretTypeOpaque,
                          Data |-> built.data,
                          Labels |-> <<>>,
                          Annotations |-> <<>>,
                          OwnerReferences |-> <<>>,
                          ResourceVersion |-> 0]]

----------------------------------------------------------------------------
(* The objects of the model.                                               *)

GSMs == {"g1"}
TargetName == "app-secret"      \* spec.targetSecret.name of every GSMSecret
Namespace == "default"
NotFound == [NotFound |-> TRUE] \* no such object

K1 == <<"K", "1">>
K2 == <<"K", "2">>
payV1 == <<"v", "1">>
payV2 == <<"v", "2">>
\* {"k":"K2","v":"v1","n":7}
payDoc == <<"{", "\"", "k", "\"", ":", "\"", "K", "2", "\"", ",",
            "\"", "v", "\"", ":", "\"", "v", "1", "\"", ",",
            "\"", "n", "\"", ":", "7", "}">>
\* {"k":"b k"}
payBad == <<"{", "\"", "k", "\"", ":", "\"", "b", " ", "k", "\"", "}">>
\* {"a":{"b":"x"},"n":7}
payNested == <<"{", "\"", "a", "\"", ":", "{", "\"", "b", "\"", ":", "\"", "x", "\"", "}", ",",
               "\"", "n", "\"", ":", "7", "}">>
\* "s"
payString == <<"\"", "s", "\"">>
Payloads == {payV1, payV2, payDoc}

Entry(key, keys, secretID) ==
    [Key |-> key, Keys |-> keys, ProjectID |-> <<"p">>, SecretID |-> secretID,
     Version |-> <<"1">>]
Mapping(key, value) == [Key |-> key, Value |-> value]

entryA == Entry(K1, <<>>, <<"a">>)
entryB == Entry(K1, <<>>, <<"b">>)
entryC == Entry(K2, <<>>, <<"b">>)
entryMapped == Entry(<<>>, <<Mapping(<<"/", "k">>, <<"/", "v">>),
                              Mapping(K1, <<"/", "n">>)>>, <<"j">>)
entryNeither == Entry(<<>>, <<>>, <<"a">>)
entryBoth == Entry(K1, <<Mapping(K2, <<"/", "v">>)>>, <<"a">>)
entryBadKey == Entry(<<"b", " ", "k">>, <<>>, <<"a">>)
entryMissing == Entry(K2, <<>>, <<"z">>)
entryMappedBadKey == Entry(<<>>, <<Mapping(<<"b", " ", "k">>, <<"/", "v">>)>>, <<"j">>)
entryNoVersion == [Entry(K2, <<>>, <<"a">>) EXCEPT !.Version = <<>>]
entryMappedTwice == Entry(<<>>, <<Mapping(K1, <<"/", "v">>),
                                   Mapping(K1, <<"/", "n">>)>>, <<"j">>)

\* the spec.gsmSecrets lists a GSMSecret of the model may carry
SpecChoices ==
    {<<>>, <<entryA>>, <<entryA, entryB>>, <<entryC, entryMapped>>, <<entryNeither>>}

StoreNames == {secretVersionName(e) : e \in {entryA, entryB, entryMapped}}

conditionTypeReady == "Ready"
ConditionTrue == "True"
ConditionFalse == "False"

\* a condition of another type, set by somebody else
otherCondition ==
    [Type |-> "Progressing", Status |-> ConditionFalse, ObservedGeneration |-> 0,
     LastTransitionTime |-> 0, Reason |-> "Idle", Message |-> "idle"]

NewGSMSecret(name, entries, conditions) ==
    [Name |-> name, Namespace |-> Namespace, UID |-> <<"uid", name>>, Generation |-> 1,
     ResourceVersion |-> 0,
     Spec |-> [TargetSecret |-> TargetName, Secrets |-> entries],
     Status |-> [ObservedGeneration |-> 0, Conditions |-> conditions]]

\* owner references other API clients put on the Secret
foreignOwner(controller) ==
    [Kind |-> "Deployment", Name |-> "other", UID |-> "other", Controller |-> controller]

ExtSecret(type, data, meta, owners) ==
    [Name |-> TargetName, Namespace |-> Namespace, Type |-> type, Data |-> data,
     Labels |-> IF meta THEN ("custom-label" :> "kept") ELSE <<>>,
     Annotations |-> IF meta THEN ("custom-annotation" :> "also kept") ELSE <<>>,
     OwnerReferences |-> owners, ResourceVersion |-> 0]

\* the Secrets other API clients write
ExtSecretChoices ==
    {ExtSecret(SecretTypeOpaque, (K2 :> payV2), FALSE, <<>>),
     ExtSecret("kubernetes.io/tls", (K1 :> payV1) @@ (K2 :> payV2), TRUE, <<>>),
     ExtSecret(SecretTypeOpaque, (K1 :> payV1), TRUE, <<foreignOwner(FALSE)>>),
     ExtSecret(SecretTypeOpaque, (K1 :> payV2), FALSE, <<foreignOwner(TRUE)>>)}

----------------------------------------------------------------------------
(* The controller's helpers.                                               *)

defaultResyncInterval == 300   \* seconds (5 * time.Minute)

\* getResyncInterval ignoring RESYNC_INTERVAL_SECONDS
resyncIntervalDefaultOnly(environ) == defaultResyncInterval

\* a getResyncInterval that asks for no resync
resyncIntervalNone(environ) == 0

\* getResyncInterval(), in seconds
getResyncInterval(environ) ==
    LET v == environ.RESYNC_INTERVAL_SECONDS
        parsed == Atoi(v)
    IN  IF v # <<>> /\ parsed.ok /\ parsed.val > 0 THEN parsed.val
        ELSE defaultResyncInterval

\* the controller reference ctrl.SetControllerReference builds for owner
controllerRef(owner) ==
    [Kind |-> "GSMSecret", Name |-> owner.Name, UID |-> owner.UID, Controller |-> TRUE]

\* referSameObject: same group, kind and name (the UID is not compared)
referSameObject(a, b) == a.Kind = b.Kind /\ a.Name = b.Name

\* upsertOwnerRef without the search for a reference to the same object
appendOwnerRef(ref, refs) == Append(refs, ref)

\* upsertOwnerRef: replace the reference to the same object, or append
upsertOwnerRef(ref, refs) ==
    LET same == {i \in 1..Len(refs) : referSameObject(refs[i], ref)}
    IN  IF same = {} THEN Append(refs, ref)
        ELSE LET idx == CHOOSE i \in same : \A j \in same : i <= j
             IN  [refs EXCEPT ![idx] = ref]

\* a SetControllerReference that does not look for another controller
setControllerReferenceForced(owner, object) ==
    [err |-> Nil,
     object |-> [object EXCEPT
                   !.OwnerReferences = upsertOwnerRef(controllerRef(owner), object.OwnerReferences)]]

\* ctrl.SetControllerReference(owner, object, scheme): refused when another
\* object is the controller already
SetControllerReference(owner, object) ==
    LET ref == controllerRef(owner)
        controllers == {i \in 1..Len(object.OwnerReferences) :
                            object.OwnerReferences[i].Controller}
    IN  IF \E i \in controllers : ~referSameObject(object.OwnerReferences[i], ref)
        THEN [err |-> "already owned", object |-> object]
        ELSE [err |-> Nil,
              object |-> [object EXCEPT
                            !.OwnerReferences = upsertOwnerRef(ref, object.OwnerReferences)]]

\* applySecret's update as it was before adoption: data and type only
updatedExistingUnowned(owner, existing, desired) ==
    [err |-> Nil, object |-> [existing EXCEPT !.Data = desired.Data, !.Type = desired.Type]]

\* applySecret's update keeping the keys the desired data does not mention
updatedExistingMerged(owner, existing, desired) ==
    IF SetControllerReference(owner, existing).err # Nil
    THEN [err |-> "failed to set controller reference on existing secret",
          object |-> existing]
    ELSE [err |-> Nil,
          object |-> [SetControllerReference(owner, existing).object EXCEPT
                         !.Data = desired.Data @@ existing.Data, !.Type = desired.Type]]

\* applySecret's "update if found": the controller reference on the Secret
\* that exists, and the desired data and type on it
updatedExisting(owner, existing, desired) ==
    LET owned == SetControllerReference(owner, existing)
    IN  IF owned.err # Nil
        THEN [err |-> "failed to set controller reference on existing secret",
              object |-> existing]
        ELSE [err |-> Nil,
              object |-> [owned.object EXCEPT !.Data = desired.Data, !.Type = desired.Type]]

\* a search that takes the last condition for the Ready one
readyIndexLast(conditions) == Len(conditions)

\* the index of the first Ready condition, or 0
readyIndex(conditions) ==
    LET ready == {i \in 1..Len(conditions) : conditions[i].Type = conditionTypeReady}
    IN  IF ready = {} THEN 0 ELSE CHOOSE i \in ready : \A j \in ready : i <= j

\* a LastTransitionTime that is always the current time
transitionTimeNow(conditions, status, clock) == clock

\* the LastTransitionTime setStatusCondition gives the new condition
transitionTime(conditions, status, clock) ==
    LET i == readyIndex(conditions)
    IN  IF i # 0 /\ conditions[i].Status = status
        THEN conditions[i].LastTransitionTime ELSE clock

\* setStatusCondition appending the condition whatever the list holds
setStatusConditionAppend(gsmSecret, status, reason, message, clock) ==
    [gsmSecret EXCEPT
        !.Status.ObservedGeneration = gsmSecret.Generation,
        !.Status.Conditions =
            Append(gsmSecret.Status.Conditions,
                   [Type |-> conditionTypeReady, Status |-> status,
                    ObservedGeneration |-> gsmSecret.Generation,
                    LastTransitionTime |-> clock,
                    Reason |-> reason, Message |-> message])]

\* setStatusCondition, up to its Status().Update call: the GSMSecret it sends
setStatusCondition(gsmSecret, status, reason, message, clock) ==
    LET conditions == gsmSecret.Status.Conditions
        newCondition ==
            [Type |-> conditionTypeReady, Status |-> status,
             ObservedGeneration |-> gsmSecret.Generation,
             LastTransitionTime |-> transitionTime(conditions, status, clock),
             Reason |-> reason, Message |-> message]
        i == readyIndex(conditions)
    IN  [gsmSecret EXCEPT
            !.Status.ObservedGeneration = gsmSecret.Generation,
            !.Status.Conditions = IF i # 0 THEN [conditions EXCEPT ![i] = newCondition]
                                  ELSE Append(conditions, newCondition)]

\* a resolvePayloads that builds its client before it looks at the entries
resolvePayloadsClientFirst(gsmSecret, store, authOK, failAt) ==
    LET entries == gsmSecret.Spec.Secrets
        fetched == fetchSecretEntriesPayloads(entries, store, failAt)
    IN  IF ~authOK
        THEN [err |-> "exchange KSA token for Google credentials", payloads |-> <<>>,
              calls |-> <<"newGsmClient">>, requested |-> <<>>]
        ELSE [err |-> fetched.err, payloads |-> fetched.payloads,
              calls |-> <<"newGsmClient">>
                            \o [i \in 1..fetched.fetched |-> "AccessSecretVersion"],
              requested |-> [i \in 1..fetched.fetched |-> secretVersionName(entries[i])]]

\* a resolvePayloads that reads the entries before it has a client
resolvePayloadsFetchFirst(gsmSecret, store, authOK, failAt) ==
    LET entries == gsmSecret.Spec.Secrets
        fetched == fetchSecretEntriesPayloads(entries, store, failAt)
    IN  IF Len(entries) = 0
        THEN [err |-> Nil, payloads |-> <<>>, calls |-> <<>>, requested |-> <<>>]
        ELSE [err |-> IF authOK THEN fetched.err
                      ELSE "exchange KSA token for Google credentials",
              payloads |-> IF authOK THEN fetched.payloads ELSE <<>>,
              calls |-> [i \in 1..fetched.fetched |-> "AccessSecretVersion"]
                            \o <<"newGsmClient">>,
              requested |-> [i \in 1..fetched.fetched |-> secretVersionName(entries[i])]]

\* resolvePayloads(ctx): nothing is called for an empty spec.gsmSecrets;
\* otherwise newGsmClient authenticates (authOK: it succeeds) and
\* fetchSecretEntriesPayloads reads the entries
resolvePayloads(gsmSecret, store, authOK, failAt) ==
    LET entries == gsmSecret.Spec.Secrets
        fetched == fetchSecretEntriesPayloads(entries, store, failAt)
    IN  IF Len(entries) = 0
        THEN [err |-> Nil, payloads |-> <<>>, calls |-> <<>>, requested |-> <<>>]
        ELSE IF ~authOK
        THEN [err |-> "exchange KSA token for Google credentials", payloads |-> <<>>,
              calls |-> <<"newGsmClient">>, requested |-> <<>>]
        ELSE [err |-> fetched.err, payloads |-> fetched.payloads,
              calls |-> <<"newGsmClient">>
                            \o [i \in 1..fetched.fetched |-> "AccessSecretVersion"],
              requested |-> [i \in 1..fetched.fetched |-> secretVersionName(entries[i])]]

\* a Reconcile that returns the status write's error before the phase's
reconcileResultStatusFirst(phaseErr, statusErr, environ) ==
    IF statusErr # Nil THEN [err |-> statusErr, RequeueAfter |-> 0]
    ELSE IF phaseErr # Nil THEN [err |-> phaseErr, RequeueAfter |-> 0]
    ELSE [err |-> Nil, RequeueAfter |-> getResyncInterval(environ)]

\* a Reconcile that drops the error of its last status write
reconcileResultStatusDropped(phaseErr, statusErr, environ) ==
    IF phaseErr # Nil THEN [err |-> phaseErr, RequeueAfter |-> 0]
    ELSE [err |-> Nil, RequeueAfter |-> getResyncInterval(environ)]

\* a Reconcile that asks for a resync along with the status write's error
reconcileResultStatusResync(phaseErr, statusErr, environ) ==
    IF phaseErr # Nil THEN [err |-> phaseErr, RequeueAfter |-> 0]
    ELSE [err |-> statusErr, RequeueAfter |-> getResyncInterval(environ)]

\* what Reconcile returns once its status write is done: the failed
\* phase's error, else the status write's error, else a resync request
reconcileResult(phaseErr, statusErr, environ) ==
    IF phaseErr # Nil THEN [err |-> phaseErr, RequeueAfter |-> 0]
    ELSE IF statusErr # Nil THEN [err |-> statusErr, RequeueAfter |-> 0]
    ELSE [err |-> Nil, RequeueAfter |-> getResyncInterval(environ)]

\* the outcome of an optimistic write of object over stored
writeError(stored, object, apiErr) ==
    IF apiErr THEN "api error"
    ELSE IF stored = NotFound THEN "not found"
    ELSE IF stored.ResourceVersion # object.ResourceVersion THEN "conflict"
    ELSE Nil

----------------------------------------------------------------------------
(* The state machine.                                                      *)

NoReport == [Status |-> "", Reason |-> "", Message |-> ""]
NoResult == [err |-> Nil, RequeueAfter |-> 0]

\* no invocation yet
IdleRec ==
    [pc |-> "idle",
     gsmSecret |-> NotFound,   \* the GSMSecret Reconcile loaded
     desired |-> NotFound,     \* the Secret buildOpaqueSecret returned, owner set
     found |-> NotFound,       \* the Secret applySecret's Get returned
     existing |-> NotFound,    \* the same, as applySecret changed it
     report |-> NoReport,      \* the arguments of setStatusCondition
     reportedAt |-> 0,         \* metav1.Now() in setStatusCondition
     phaseErr |-> Nil,         \* the error of the phase that failed
     statusErr |-> Nil,        \* the error of Status().Update
     result |-> NoResult,      \* what Reconcile returned
     calls |-> <<>>,           \* history: the remote calls made, in order
     requested |-> <<>>,       \* history: the names AccessSecretVersion was asked for
     phases |-> <<>>]          \* history: <<phase, its error>>, in order

ResyncChoices == {<<>>, <<"7">>}

\* no helper is being applied on its own
NoCall == [fn |-> "none"]

\* the package variables of getInClusterKubeClient before its first call
\* (inits is history: how often the function given to Do has run)
KubeNew == [once |-> "new", client |-> Nil, err |-> Nil, inits |-> 0]

\* no worker goroutine and no work queue
NoWork == <<>>
NoMgr == <<>>

\* the GSMSecret objects a run may start with
InitGSMSecrets(g) ==
    {NewGSMSecret(g, entries, <<otherCondition>>) : entries \in SpecChoices}

Init ==
    /\ env \in [RESYNC_INTERVAL_SECONDS : ResyncChoices]
    /\ gsm \in {f \in [GSMs -> UNION {InitGSMSecrets(g) : g \in GSMs}] :
                    \A g \in GSMs : f[g] \in InitGSMSecrets(g)}
    /\ secrets \in {NotFound} \cup ExtSecretChoices
    /\ gsmStore = [n \in StoreNames |->
                     IF n = secretVersionName(entryA) THEN payV1
                     ELSE IF n = secretVersionName(entryB) THEN payV2 ELSE payDoc]
    /\ rvCounter = 0
    /\ now = 0
    /\ rec = [g \in GSMs |-> IdleRec]
    /\ hist = [g \in GSMs |-> <<>>]
    /\ runsLeft = MaxRuns
    /\ extLeft = MaxExt
    /\ input = NoCall
    /\ output = NoCall
    /\ kube = KubeNew
    /\ work = NoWork
    /\ mgr = NoMgr


\* history: phase ended with err
Ended(r, phase, err) == [r EXCEPT !.phases = Append(r.phases, <<phase, err>>)]

\* a Reconcile that creates the Secret without data when the payloads could
\* not be had
failureReportEmptySecret(r, reason, err) ==
    IF reason = "FetchFailed"
    THEN [r EXCEPT !.pc = "applyCreate", !.phaseErr = err,
                   !.desired = buildOpaqueSecret(r.gsmSecret, <<>>).secret]
    ELSE [r EXCEPT !.pc = "status", !.phaseErr = err,
                   !.report = [Status |-> ConditionFalse, Reason |-> reason, Message |-> err]]

\* a phase failed: Reconcile reports it under reason and will return err
failureReport(r, reason, err) ==
    [r EXCEPT !.pc = "status", !.phaseErr = err,
              !.report = [Status |-> ConditionFalse, Reason |-> reason, Message |-> err]]

\* applySecret returned nil: Reconcile reports success
successReport(r) ==
    [r EXCEPT !.pc = "status",
              !.report = [Status |-> ConditionTrue, Reason |-> "Synced",
                          Message |-> "Secret successfully synced from GSM"]]

\* history: g applied entry; every other request's history ends
Record(g, entry) ==
    [h \in DOMAIN hist |-> IF h = g
                    THEN (IF hist[g] = <<>> THEN <<>> ELSE <<hist[g][Len(hist[g])]>>)
                             \o <<entry>>
                    ELSE <<>>]

\* a Reconcile that asks for a resync of a GSMSecret that is gone
afterGetResync(started, object, apiErr) ==
    IF apiErr
    THEN [Ended(started, "fetch", "api error") EXCEPT
             !.pc = "done", !.phaseErr = "api error",
             !.result = [err |-> "api error", RequeueAfter |-> 0]]
    ELSE IF object = NotFound
    THEN [Ended(started, "fetch", "not found") EXCEPT
             !.pc = "done", !.result = [err |-> Nil, RequeueAfter |-> defaultResyncInterval]]
    ELSE [Ended(started, "fetch", Nil) EXCEPT !.pc = "materialize", !.gsmSecret = object]

\* Reconcile after its r.Get of the GSMSecret: nothing to do when there is
\* none, the error when the Get failed otherwise
afterGet(started, object, apiErr) ==
    IF apiErr
    THEN [Ended(started, "fetch", "api error") EXCEPT
             !.pc = "done", !.phaseErr = "api error",
             !.result = [err |-> "api error", RequeueAfter |-> 0]]
    ELSE IF object = NotFound
    THEN [Ended(started, "fetch", "not found") EXCEPT !.pc = "done", !.result = NoResult]
    ELSE [Ended(started, "fetch", Nil) EXCEPT !.pc = "materialize", !.gsmSecret = object]

\* Reconcile, step 1: r.Get of the GSMSecret
ReconcileGet(g) ==
    /\ rec[g].pc \in {"idle", "done"}
    /\ runsLeft > 0
    /\ runsLeft' = runsLeft - 1
    /\ \E apiErr \in BOOLEAN :
         rec' = [rec EXCEPT ![g] =
                    afterGet([IdleRec EXCEPT !.calls = <<"Get GSMSecret">>], gsm[g], apiErr)]
    /\ UNCHANGED <<kube, work, mgr, input, output, env, gsm, secrets, gsmStore, rvCounter, now, hist, extLeft>>

\* Reconcile, step 2: resolvePayloads, buildOpaqueSecret and applySecret up
\* to its Get (the controller reference on the desired Secret)
Materialize(g) ==
    /\ rec[g].pc = "materialize"
    /\ \E authOK \in BOOLEAN, failAt \in 0..Len(rec[g].gsmSecret.Spec.Secrets) :
       \E resolved \in {resolvePayloads(rec[g].gsmSecret, gsmStore, authOK, failAt)} :
       \E built \in {buildOpaqueSecret(rec[g].gsmSecret, resolved.payloads)} :
       \E owned \in {SetControllerReference(rec[g].gsmSecret, built.secret)} :
       \E called \in {Ended([rec[g] EXCEPT !.calls = rec[g].calls \o resolved.calls,
                                            !.requested = resolved.requested],
                            "resolve", resolved.err)} :
         rec' = [rec EXCEPT ![g] =
                IF resolved.err # Nil THEN failureReport(called, "FetchFailed", resolved.err)
                ELSE IF built.err # Nil
                THEN failureReport(Ended(called, "build", built.err), "BuildFailed", built.err)
                ELSE IF owned.err # Nil
                THEN failureReport(Ended(Ended(called, "build", Nil), "apply",
                                         "failed to set controller reference"),
                                   "ApplyFailed", "failed to set controller reference")
                ELSE [Ended(called, "build", Nil) EXCEPT
                         !.pc = "applyGet", !.desired = owned.object]]
    /\ UNCHANGED <<kube, work, mgr, input, output, env, gsm, secrets, gsmStore, rvCounter, now, hist, runsLeft, extLeft>>

\* applySecret: r.Get of the Secret, then the controller reference and the
\* data and type on the object it returned
ApplyGet(g) ==
    /\ rec[g].pc = "applyGet"
    /\ \E apiErr \in BOOLEAN :
         LET r == [rec[g] EXCEPT !.calls = Append(rec[g].calls, "Get Secret")]
             updated == updatedExisting(r.gsmSecret, secrets, r.desired)
         IN  rec' = [rec EXCEPT ![g] =
                IF apiErr
                THEN failureReport(Ended(r, "apply", "api error"), "ApplyFailed", "api error")
                ELSE IF secrets = NotFound THEN [r EXCEPT !.pc = "applyCreate"]
                ELSE IF updated.err # Nil
                THEN failureReport(Ended([r EXCEPT !.found = secrets], "apply", updated.err),
                                   "ApplyFailed", updated.err)
                ELSE [r EXCEPT !.pc = "applyUpdate", !.found = secrets,
                               !.existing = updated.object]]
    /\ UNCHANGED <<kube, work, mgr, input, output, env, gsm, secrets, gsmStore, rvCounter, now, hist, runsLeft, extLeft>>

\* applySecret: r.Create(ctx, desired)
ApplyCreate(g) ==
    /\ rec[g].pc = "applyCreate"
    /\ \E apiErr \in BOOLEAN :
         LET err == IF apiErr THEN "api error"
                    ELSE IF secrets # NotFound THEN "already exists" ELSE Nil
             r == Ended([rec[g] EXCEPT !.calls = Append(rec[g].calls, "Create Secret")],
                        "apply", err)
         IN  IF err # Nil
             THEN /\ rec' = [rec EXCEPT ![g] = failureReport(r, "ApplyFailed", err)]
                  /\ UNCHANGED <<secrets, rvCounter, hist>>
             ELSE /\ rec' = [rec EXCEPT ![g] = successReport(r)]
                  /\ secrets' = [r.desired EXCEPT !.ResourceVersion = rvCounter + 1]
                  /\ rvCounter' = rvCounter + 1
                  /\ hist' = Record(g, [op |-> "create", desired |-> r.desired,
                                        found |-> NotFound])
    /\ UNCHANGED <<kube, work, mgr, input, output, env, gsm, gsmStore, now, runsLeft, extLeft>>

\* applySecret: r.Update(ctx, &existing)
ApplyUpdate(g) ==
    /\ rec[g].pc = "applyUpdate"
    /\ \E apiErr \in BOOLEAN :
         LET err == writeError(secrets, rec[g].existing, apiErr)
             r == Ended([rec[g] EXCEPT !.calls = Append(rec[g].calls, "Update Secret")],
                        "apply", err)
         IN  IF err # Nil
             THEN /\ rec' = [rec EXCEPT ![g] = failureReport(r, "ApplyFailed", err)]
                  /\ UNCHANGED <<secrets, rvCounter, hist>>
             ELSE /\ rec' = [rec EXCEPT ![g] = successReport(r)]
                  /\ secrets' = [r.existing EXCEPT !.ResourceVersion = rvCounter + 1]
                  /\ rvCounter' = rvCounter + 1
                  /\ hist' = Record(g, [op |-> "update", desired |-> r.desired,
                                        found |-> r.found])
    /\ UNCHANGED <<kube, work, mgr, input, output, env, gsm, gsmStore, now, runsLeft, extLeft>>

\* Reconcile's last step: setStatusCondition with its Status().Update, and
\* the return
StatusUpdate(g) ==
    /\ rec[g].pc = "status"
    /\ \E apiErr \in BOOLEAN :
         LET r == rec[g]
             sent == setStatusCondition(r.gsmSecret, r.report.Status, r.report.Reason,
                                        r.report.Message, now)
             err == writeError(gsm[g], sent, apiErr)
         IN  /\ rec' = [rec EXCEPT ![g] =
                    [Ended(r, "status", err) EXCEPT
                        !.pc = "done", !.reportedAt = now, !.statusErr = err,
                        !.gsmSecret = NotFound, !.desired = NotFound,
                        !.found = NotFound, !.existing = NotFound,
                        !.calls = Append(r.calls, "Update GSMSecret status"),
                        !.result = reconcileResult(r.phaseErr, err, env)]]
             /\ IF err = Nil
                THEN /\ gsm' = [gsm EXCEPT ![g] = [gsm[g] EXCEPT
                                    !.Status = sent.Status,
                                    !.ResourceVersion = rvCounter + 1]]
                     /\ rvCounter' = rvCounter + 1
                ELSE UNCHANGED <<gsm, rvCounter>>
    /\ UNCHANGED <<kube, work, mgr, input, output, env, secrets, gsmStore, now, hist, runsLeft, extLeft>>

----------------------------------------------------------------------------
(* Everybody else.                                                         *)

\* a user changes spec.gsmSecrets: the API server bumps the generation
ExtUpdateSpec(g, entries) ==
    /\ extLeft > 0
    /\ gsm[g] # NotFound
    /\ gsm[g].Spec.Secrets # entries
    /\ gsm' = [gsm EXCEPT ![g] = [gsm[g] EXCEPT
                  !.Spec.Secrets = entries,
                  !.Generation = gsm[g].Generation + 1,
                  !.ResourceVersion = rvCounter + 1]]
    /\ rvCounter' = rvCounter + 1
    /\ extLeft' = extLeft - 1
    /\ UNCHANGED <<kube, work, mgr, input, output, env, secrets, gsmStore, now, rec, hist, runsLeft>>

\* a user deletes the GSMSecret
ExtDeleteGSMSecret(g) ==
    /\ extLeft > 0
    /\ gsm[g] # NotFound
    /\ gsm' = [gsm EXCEPT ![g] = NotFound]
    /\ extLeft' = extLeft - 1
    /\ UNCHANGED <<kube, work, mgr, input, output, env, secrets, gsmStore, rvCounter, now, rec, hist, runsLeft>>

\* another client creates or overwrites the target Secret
ExtWriteSecret(object) ==
    /\ extLeft > 0
    /\ secrets' = [object EXCEPT !.ResourceVersion = rvCounter + 1]
    /\ rvCounter' = rvCounter + 1
    /\ hist' = [g \in DOMAIN hist |-> <<>>]
    /\ extLeft' = extLeft - 1
    /\ UNCHANGED <<kube, work, mgr, input, output, env, gsm, gsmStore, now, rec, runsLeft>>

\* another client deletes the target Secret
ExtDeleteSecret ==
    /\ extLeft > 0
    /\ secrets # NotFound
    /\ secrets' = NotFound
    /\ hist' = [g \in DOMAIN hist |-> <<>>]
    /\ extLeft' = extLeft - 1
    /\ UNCHANGED <<kube, work, mgr, input, output, env, gsm, gsmStore, rvCounter, now, rec, runsLeft>>

\* a new payload is stored in Secret Manager
ExtStoreChange(name, payload) ==
    /\ extLeft > 0
    /\ gsmStore[name] # payload
    /\ gsmStore' = [gsmStore EXCEPT ![name] = payload]
    /\ extLeft' = extLeft - 1
    /\ UNCHANGED <<kube, work, mgr, input, output, env, gsm, secrets, rvCounter, now, rec, hist, runsLeft>>

\* time passes
Tick ==
    /\ extLeft > 0
    /\ now' = now + 1
    /\ extLeft' = extLeft - 1
    /\ UNCHANGED <<kube, work, mgr, input, output, env, gsm, secrets, gsmStore, rvCounter, rec, hist, runsLeft>>

Next ==
    \/ \E g \in GSMs : ReconcileGet(g)
    \/ \E g \in GSMs : Materialize(g)
    \/ \E g \in GSMs : ApplyGet(g)
    \/ \E g \in GSMs : ApplyCreate(g)
    \/ \E g \in GSMs : ApplyUpdate(g)
    \/ \E g \in GSMs : StatusUpdate(g)
    \/ \E g \in GSMs, entries \in SpecChoices : ExtUpdateSpec(g, entries)
    \/ \E g \in GSMs : ExtDeleteGSMSecret(g)
    \/ \E object \in ExtSecretChoices : ExtWriteSecret(object)
    \/ ExtDeleteSecret
    \/ \E payload \in Payloads : ExtStoreChange(secretVersionName(entryA), payload)
    \/ Tick

Spec == Init /\ [][Next]_vars

----------------------------------------------------------------------------
(* The pipeline on its own: every spec.gsmSecrets list of up to MaxEntries *)
(* entries, against every content of the store, resolved and built once.   *)

PipeEntries ==
    {entryA, entryB, entryC, entryMapped, entryMappedTwice, entryNeither, entryBoth,
     entryBadKey, entryMissing, entryMappedBadKey, entryNoVersion}

PipePayloads == Payloads \cup {payBad}

PipeSpecChoices == UNION {[1..n -> PipeEntries] : n \in 0..MaxEntries}

PipeInit ==
    /\ env = [RESYNC_INTERVAL_SECONDS |-> <<>>]
    /\ gsm \in {f \in [GSMs -> {NewGSMSecret(g, entries, <<otherCondition>>) :
                                    g \in GSMs, entries \in PipeSpecChoices}] :
                    \A g \in GSMs : f[g].Name = g}
    /\ secrets = NotFound
    /\ gsmStore \in [StoreNames -> PipePayloads]
    /\ rvCounter = 0
    /\ now = 0
    /\ rec = [g \in GSMs |->
                afterGet([IdleRec EXCEPT !.calls = <<"Get GSMSecret">>], gsm[g], FALSE)]
    /\ hist = [g \in GSMs |-> <<>>]
    /\ runsLeft = 0
    /\ extLeft = 0
    /\ input = NoCall
    /\ output = NoCall
    /\ kube = KubeNew
    /\ work = NoWork
    /\ mgr = NoMgr

PipeNext == \E g \in GSMs : Materialize(g)

PipeSpec == PipeInit /\ [][PipeNext]_vars

----------------------------------------------------------------------------
(* The watch predicates and the identity helpers, each applied on its own  *)
(* to arguments drawn from the sets below.                                 *)

AnnotationKSA == "secrets.gsm-operator.io/ksa"
AnnotationGSA == "secrets.gsm-operator.io/gsa"
AnnotationWIFAudience == "secrets.gsm-operator.io/wif-audience"
AnnotationRelease == "secrets.gsm-operator.io/release"

\* relevantAnnotations without the release annotation
relevantAnnotationsNoRelease == <<AnnotationKSA, AnnotationGSA, AnnotationWIFAudience>>

relevantAnnotations ==
    <<AnnotationKSA, AnnotationGSA, AnnotationWIFAudience, AnnotationRelease>>

\* annotations[key] of a Go map: the empty string for a key it has not
annotationValue(annotations, key) ==
    IF key \in DOMAIN annotations THEN annotations[key] ELSE <<>>

\* gsmSecretChangedPredicate.Update(e)
gsmSecretChangedUpdate(old, new) ==
    IF old.Generation # new.Generation THEN TRUE
    ELSE \E i \in 1..Len(relevantAnnotations) :
            annotationValue(old.Annotations, relevantAnnotations[i])
                # annotationValue(new.Annotations, relevantAnnotations[i])

\* the annotation maps of the GSMSecret objects of update events
AnnotationChoices ==
    {<<>>,
     (AnnotationKSA :> <<"a">>), (AnnotationKSA :> <<"b">>), (AnnotationKSA :> <<>>),
     (AnnotationGSA :> <<"a">>), (AnnotationWIFAudience :> <<"a">>),
     (AnnotationRelease :> <<"a">>), (AnnotationRelease :> <<>>),
     ("example.com/team" :> <<"a">>), ("example.com/team" :> <<"b">>),
     (AnnotationKSA :> <<"a">>) @@ ("example.com/team" :> <<"b">>)}

\* the GSMSecret objects of update events: metadata and status
WatchedGSMSecrets ==
    [Generation : {1, 2}, Annotations : AnnotationChoices,
     Labels : {<<>>, ("app" :> "x")}, ObservedGeneration : {0, 1}]

GSMSecretEvents ==
    [fn : {"gsmSecretChangedPredicate"}, old : WatchedGSMSecrets, new : WatchedGSMSecrets]

\* the manager hands an update event of a GSMSecret to its predicate
PredicateGSMSecret ==
    /\ input.fn = "gsmSecretChangedPredicate"
    /\ output = NoCall
    /\ output' = [fn |-> input.fn, result |-> gsmSecretChangedUpdate(input.old, input.new)]
    /\ UNCHANGED <<kube, work, mgr, input, env, gsm, secrets, gsmStore, rvCounter, now, rec, hist,
                   runsLeft, extLeft>>

\* a Go byte slice: nil, or its bytes
Bytes(isNil, b) == [isNil |-> isNil, b |-> b]

\* a Go map[string][]byte: nil (no entries), or its entries
DataMap(isNil, m) == [isNil |-> isNil, m |-> m]

\* bytes.Equal: nil and the empty slice are equal
bytesEqual(a, b) == a.b = b.b

\* secretDataEqual looking at the number of entries only
secretDataEqualLen(a, b) == Cardinality(DOMAIN a.m) = Cardinality(DOMAIN b.m)

\* secretDataEqual(a, b)
secretDataEqual(a, b) ==
    IF Cardinality(DOMAIN a.m) # Cardinality(DOMAIN b.m) THEN FALSE
    ELSE \A k \in DOMAIN a.m : k \in DOMAIN b.m /\ bytesEqual(a.m[k], b.m[k])

\* secretDataChangedPredicate.Update(e)
secretDataChangedUpdate(old, new) ==
    IF old.Kind # "Secret" THEN TRUE
    ELSE IF new.Kind # "Secret" THEN TRUE
    ELSE IF old.Type # new.Type THEN TRUE
    ELSE IF ~secretDataEqual(old.Data, new.Data) THEN TRUE
    ELSE FALSE

\* the data maps of the objects of update events
DataChoices ==
    {DataMap(TRUE, <<>>), DataMap(FALSE, <<>>),
     DataMap(FALSE, (K1 :> Bytes(FALSE, payV1))),
     DataMap(FALSE, (K1 :> Bytes(FALSE, payV2))),
     DataMap(FALSE, (K2 :> Bytes(FALSE, payV1))),
     DataMap(FALSE, (K1 :> Bytes(FALSE, payV1)) @@ (K2 :> Bytes(FALSE, payV2))),
     DataMap(FALSE, (K1 :> Bytes(FALSE, <<>>))),
     DataMap(FALSE, (K1 :> Bytes(TRUE, <<>>)))}

\* the objects of update events on the Secrets the controller owns, and an
\* object of another kind
WatchedObjects ==
    [Kind : {"Secret"}, Type : {SecretTypeOpaque, "kubernetes.io/tls"}, Data : DataChoices,
     ResourceVersion : {1, 2}, Labels : {<<>>, ("app" :> "x")},
     Annotations : {<<>>, ("note" :> "y")}]
    \cup [Kind : {"ConfigMap"}, Type : {""}, Data : {DataMap(TRUE, <<>>)},
          ResourceVersion : {1}, Labels : {<<>>}, Annotations : {<<>>}]

SecretEvents ==
    [fn : {"secretDataChangedPredicate"}, old : WatchedObjects, new : WatchedObjects]

\* the manager hands an update event of an owned Secret to its predicate
PredicateSecret ==
    /\ input.fn = "secretDataChangedPredicate"
    /\ output = NoCall
    /\ output' = [fn |-> input.fn, result |-> secretDataChangedUpdate(input.old, input.new)]
    /\ UNCHANGED <<kube, work, mgr, input, env, gsm, secrets, gsmStore, rvCounter, now, rec, hist,
                   runsLeft, extLeft>>

\* the payloads and the mappings mapKeysToSecretKeyMappings is applied to
MaxMappings == 2
MappedDocuments == {payDoc, payBad, payNested, payString, payV1}
MappingChoices ==
    {Mapping(K1, <<"/", "v">>), Mapping(<<"/", "k">>, <<"/", "v">>),
     Mapping(K1, <<"/", "n">>), Mapping(<<"/", "k">>, <<"/", "x">>),
     Mapping(<<"/", "x">>, <<"/", "v">>), Mapping(<<"/", "n">>, <<"/", "v">>),
     Mapping(<<"/", "a", "/", "b">>, <<"/", "a", "/", "b">>),
     Mapping(<<"/", "a">>, <<"/", "n">>), Mapping(<<"b", " ", "k">>, <<"/", "v">>),
     Mapping(<<" ">>, <<"/", "v">>), Mapping(K1, <<" ">>), Mapping(K2, <<"v">>)}
MapKeysCalls ==
    [fn : {"mapKeysToSecretKeyMappings"}, data : MappedDocuments,
     mappings : UNION {[1..n -> MappingChoices] : n \in 0..MaxMappings}]

MapKeys ==
    /\ input.fn = "mapKeysToSecretKeyMappings"
    /\ output = NoCall
    /\ output' = [fn |-> input.fn,
                  result |-> mapKeysToSecretKeyMappings(input.data, input.mappings)]
    /\ UNCHANGED <<kube, work, mgr, input, env, gsm, secrets, gsmStore, rvCounter, now, rec, hist,
                   runsLeft, extLeft>>

\* the GSMSecrets and the payload lists buildOpaqueSecret is applied to
MaxPayloads == 2
binaryValue == <<"\\x00", "\\xff", "\\n">>
PayloadChoices == [Key : {K1, K2, <<>>}, Value : {payV1, <<>>, binaryValue}]
BuildCalls ==
    [fn : {"buildOpaqueSecret"},
     gsmSecret : {[NewGSMSecret("g1", <<>>, <<>>) EXCEPT !.Namespace = ns,
                                                         !.Spec.TargetSecret = target] :
                     ns \in {Namespace, "team-a"}, target \in {TargetName, "other-secret"}},
     payloads : UNION {[1..n -> PayloadChoices] : n \in 0..MaxPayloads}]

BuildOpaque ==
    /\ input.fn = "buildOpaqueSecret"
    /\ output = NoCall
    /\ output' = [fn |-> input.fn,
                  result |-> buildOpaqueSecret(input.gsmSecret, input.payloads)]
    /\ UNCHANGED <<kube, work, mgr, input, env, gsm, secrets, gsmStore, rvCounter, now, rec, hist,
                   runsLeft, extLeft>>

defaultKSAName == <<"d", "e", "f", "a", "u", "l", "t">>

\* a getKSA that lets the annotation win over the environment
getKSAAnnotationFirst(environ, annotations) ==
    IF TrimSpace(annotationValue(annotations, AnnotationKSA)) # <<>>
    THEN TrimSpace(annotationValue(annotations, AnnotationKSA))
    ELSE IF environ.KSA # <<>> THEN environ.KSA
    ELSE defaultKSAName

\* a getKSA that returns the annotation as it is written
getKSAUntrimmed(environ, annotations) ==
    IF environ.KSA # <<>> THEN environ.KSA
    ELSE IF TrimSpace(annotationValue(annotations, AnnotationKSA)) # <<>>
    THEN annotationValue(annotations, AnnotationKSA)
    ELSE defaultKSAName

\* getKSA(): os.Getenv("KSA"), else the trimmed annotation, else the default
getKSA(environ, annotations) ==
    IF environ.KSA # <<>> THEN environ.KSA
    ELSE IF TrimSpace(annotationValue(annotations, AnnotationKSA)) # <<>>
    THEN TrimSpace(annotationValue(annotations, AnnotationKSA))
    ELSE defaultKSAName

\* a getWIFAudience that lets the annotation win over the environment
getWIFAudienceAnnotationFirst(environ, annotations) ==
    IF TrimSpace(annotationValue(annotations, AnnotationWIFAudience)) # <<>>
    THEN [err |-> Nil, v |-> TrimSpace(annotationValue(annotations, AnnotationWIFAudience))]
    ELSE IF environ.WIFAUDIENCE # <<>> THEN [err |-> Nil, v |-> environ.WIFAUDIENCE]
    ELSE [err |-> "WIFAudience not set", v |-> <<>>]

\* getWIFAudience(): os.Getenv("WIFAUDIENCE"), else the trimmed annotation,
\* else an error
getWIFAudience(environ, annotations) ==
    IF environ.WIFAUDIENCE # <<>> THEN [err |-> Nil, v |-> environ.WIFAUDIENCE]
    ELSE IF TrimSpace(annotationValue(annotations, AnnotationWIFAudience)) # <<>>
    THEN [err |-> Nil, v |-> TrimSpace(annotationValue(annotations, AnnotationWIFAudience))]
    ELSE [err |-> "WIFAudience not set", v |-> <<>>]

\* a getCredentials that asks for the token before it resolves the audience
tokenRequestAudienceLast(environ, gsmSecret) ==
    LET audience == getWIFAudience(environ, gsmSecret.Annotations)
        ksa == getKSA(environ, gsmSecret.Annotations)
    IN  IF gsmSecret.Namespace = <<>> \/ ksa = <<>>
        THEN [err |-> "request KSA token: namespace and ksaName are required",
              request |-> [Namespace |-> <<>>, KSA |-> <<>>, Audience |-> <<>>]]
        ELSE [err |-> Nil,
              request |-> [Namespace |-> gsmSecret.Namespace, KSA |-> ksa,
                           Audience |-> audience.v]]

\* getCredentials up to the TokenRequest of requestKSAToken: the audience is
\* resolved first, then the namespace, the ServiceAccount and the audience
\* of the request
tokenRequest(environ, gsmSecret) ==
    LET audience == getWIFAudience(environ, gsmSecret.Annotations)
        ksa == getKSA(environ, gsmSecret.Annotations)
        none == [Namespace |-> <<>>, KSA |-> <<>>, Audience |-> <<>>]
    IN  IF audience.err # Nil
        THEN [err |-> "get WIF audience: WIFAudience not set", request |-> none]
        ELSE IF gsmSecret.Namespace = <<>> \/ ksa = <<>>
        THEN [err |-> "request KSA token: namespace and ksaName are required",
              request |-> none]
        ELSE [err |-> Nil,
              request |-> [Namespace |-> gsmSecret.Namespace, KSA |-> ksa,
                           Audience |-> audience.v]]

\* the environments and the GSMSecrets the identity is resolved for: a
\* variable unset or empty reads "", an annotation may be absent
EnvValues == {<<>>, <<"e">>, <<" ">>, <<" ", "e", " ">>}
AnnotationValues == {<<>>, <<"a">>, <<" ">>, <<" ", "a", "\t">>}
IdentityAnnotations ==
    {ksa @@ wif :
        ksa \in {<<>>} \cup {AnnotationKSA :> v : v \in AnnotationValues},
        wif \in {<<>>} \cup {AnnotationWIFAudience :> v : v \in AnnotationValues}}
IdentityCalls ==
    [fn : {"getCredentials"},
     environ : [KSA : EnvValues, WIFAUDIENCE : EnvValues],
     gsmSecret : [Namespace : {<<"n", "s">>, <<>>}, Annotations : IdentityAnnotations]]

\* 10 * 60: the least expiration the TokenRequest API takes, and the default
minTokenExpSeconds == <<"6", "0", "0">>
defaultTokenExpSeconds == minTokenExpSeconds

\* a getTokenExpSeconds that returns what it parsed
getTokenExpSecondsUnclamped(environ) ==
    IF environ.TOKEN_EXP_SECONDS # <<>> /\ ParseUint(environ.TOKEN_EXP_SECONDS).ok
          /\ ParseUint(environ.TOKEN_EXP_SECONDS).digits # <<"0">>
    THEN ParseUint(environ.TOKEN_EXP_SECONDS).digits
    ELSE defaultTokenExpSeconds

\* getTokenExpSeconds(), a uint64
getTokenExpSeconds(environ) ==
    IF environ.TOKEN_EXP_SECONDS # <<>> /\ ParseUint(environ.TOKEN_EXP_SECONDS).ok
          /\ ParseUint(environ.TOKEN_EXP_SECONDS).digits # <<"0">>
    THEN IF DecLess(ParseUint(environ.TOKEN_EXP_SECONDS).digits, minTokenExpSeconds)
         THEN minTokenExpSeconds
         ELSE ParseUint(environ.TOKEN_EXP_SECONDS).digits
    ELSE defaultTokenExpSeconds

\* getHTTPRequestTimeoutSeconds(), a uint64
getHTTPRequestTimeoutSeconds(environ) ==
    IF environ.HTTP_TIMEOUT_SECONDS # <<>> /\ ParseUint(environ.HTTP_TIMEOUT_SECONDS).ok
          /\ ParseUint(environ.HTTP_TIMEOUT_SECONDS).digits # <<"0">>
    THEN ParseUint(environ.HTTP_TIMEOUT_SECONDS).digits
    ELSE <<"3", "0">>

\* requestKSAToken, step 1: the expiration of the token and the timeout of
\* the request, each a time.Duration
tokenRequestLimits(environ) ==
    [expiration |-> IF Positive(Seconds(getTokenExpSeconds(environ)))
                    THEN Seconds(getTokenExpSeconds(environ))
                    ELSE Seconds(<<"6", "0", "0">>),
     timeout |-> IF Positive(Seconds(getHTTPRequestTimeoutSeconds(environ)))
                 THEN Seconds(getHTTPRequestTimeoutSeconds(environ))
                 ELSE Seconds(<<"1", "0">>)]

\* getResyncInterval(), as the time.Duration it returns
getResyncIntervalDuration(environ) ==
    IF environ.RESYNC_INTERVAL_SECONDS # <<>>
          /\ AtoiWide(environ.RESYNC_INTERVAL_SECONDS).ok
          /\ ~AtoiWide(environ.RESYNC_INTERVAL_SECONDS).neg
          /\ AtoiWide(environ.RESYNC_INTERVAL_SECONDS).digits # <<"0">>
    THEN Seconds(AtoiWide(environ.RESYNC_INTERVAL_SECONDS).digits)
    ELSE Seconds(Itoa(defaultResyncInterval))

\* the values of the numeric environment variables ("" when unset)
TokenExpValues ==
    {<<>>, <<"0">>, <<"1">>, <<"3", "0", "0">>, <<"5", "9", "9">>, <<"6", "0", "0">>, <<"6", "0", "1">>, <<"1", "2", "0", "0">>, <<"0", "6", "0", "0">>, <<"-", "5">>, <<"+", "5">>, <<"a", "b", "c">>, <<" ", "6", "0", "0">>, <<"1", "e", "3">>, <<"9", "2", "2", "3", "3", "7", "2", "0", "3", "7">>, <<"1", "8", "4", "4", "6", "7", "4", "4", "0", "7", "3", "7", "0", "9", "5", "5", "1", "6", "1", "5">>, <<"1", "8", "4", "4", "6", "7", "4", "4", "0", "7", "3", "7", "0", "9", "5", "5", "1", "6", "1", "6">>}
TimeoutValues ==
    {<<>>, <<"0">>, <<"5">>, <<"6", "0">>, <<"i", "n", "v", "a", "l", "i", "d">>, <<"-", "1">>, <<"9", "2", "2", "3", "3", "7", "2", "0", "3", "7">>, <<"1", "8", "4", "4", "6", "7", "4", "4", "0", "7", "3", "7", "0", "9", "5", "5", "1", "6", "1", "6">>}
ResyncValues ==
    {<<>>, <<"0">>, <<"7">>, <<"3", "0", "0">>, <<"3", "6", "0", "0">>, <<"0", "0", "7">>, <<"+", "7">>, <<"-", "3">>, <<"a", "b", "c">>, <<" ", "7">>, <<"7", "s">>, <<"9", "2", "2", "3", "3", "7", "2", "0", "3", "6">>, <<"9", "2", "2", "3", "3", "7", "2", "0", "3", "7">>, <<"1", "8", "4", "4", "6", "7", "4", "4", "0", "7", "4">>, <<"9", "2", "2", "3", "3", "7", "2", "0", "3", "6", "8", "5", "4", "7", "7", "5", "8", "0", "8">>}

TokenExpCalls ==
    [fn : {"getTokenExpSeconds"}, environ : [TOKEN_EXP_SECONDS : TokenExpValues]]
LimitsCalls ==
    [fn : {"requestKSAToken"},
     environ : [TOKEN_EXP_SECONDS : TokenExpValues, HTTP_TIMEOUT_SECONDS : TimeoutValues]]
ResyncCalls ==
    [fn : {"getResyncInterval"}, environ : [RESYNC_INTERVAL_SECONDS : ResyncValues]]

GetTokenExpSeconds ==
    /\ input.fn = "getTokenExpSeconds"
    /\ output = NoCall
    /\ output' = [fn |-> input.fn, result |-> getTokenExpSeconds(input.environ)]
    /\ UNCHANGED <<kube, work, mgr, input, env, gsm, secrets, gsmStore, rvCounter, now, rec, hist,
                   runsLeft, extLeft>>

TokenRequestLimits ==
    /\ input.fn = "requestKSAToken"
    /\ output = NoCall
    /\ output' = [fn |-> input.fn,
                  result |-> tokenRequestLimits(input.environ),
                  http |-> getHTTPRequestTimeoutSeconds(input.environ)]
    /\ UNCHANGED <<kube, work, mgr, input, env, gsm, secrets, gsmStore, rvCounter, now, rec, hist,
                   runsLeft, extLeft>>

GetResyncInterval ==
    /\ input.fn = "getResyncInterval"
    /\ output = NoCall
    /\ output' = [fn |-> input.fn, result |-> getResyncIntervalDuration(input.environ)]
    /\ UNCHANGED <<kube, work, mgr, input, env, gsm, secrets, gsmStore, rvCounter, now, rec, hist,
                   runsLeft, extLeft>>

KSACalls ==
    [fn : {"getKSA"}, environ : [KSA : EnvValues, WIFAUDIENCE : {<<>>}],
     annotations : IdentityAnnotations]

GetKSA ==
    /\ input.fn = "getKSA"
    /\ output = NoCall
    /\ output' = [fn |-> input.fn, result |-> getKSA(input.environ, input.annotations)]
    /\ UNCHANGED <<kube, work, mgr, input, env, gsm, secrets, gsmStore, rvCounter, now, rec, hist,
                   runsLeft, extLeft>>

GetCredentials ==
    /\ input.fn = "getCredentials"
    /\ output = NoCall
    /\ output' = [fn |-> input.fn, result |-> tokenRequest(input.environ, input.gsmSecret)]
    /\ UNCHANGED <<kube, work, mgr, input, env, gsm, secrets, gsmStore, rvCounter, now, rec, hist,
                   runsLeft, extLeft>>

FnInit ==
    /\ env = [RESYNC_INTERVAL_SECONDS |-> <<>>]
    /\ gsm = [g \in GSMs |-> NotFound]
    /\ secrets = NotFound
    /\ gsmStore = <<>>
    /\ rvCounter = 0
    /\ now = 0
    /\ rec = [g \in GSMs |-> IdleRec]
    /\ hist = [g \in GSMs |-> <<>>]
    /\ runsLeft = 0
    /\ extLeft = 0
    /\ output = NoCall
    /\ kube = KubeNew
    /\ work = NoWork
    /\ mgr = NoMgr
    /\ \/ input \in GSMSecretEvents
       \/ input \in SecretEvents
       \/ input \in MapKeysCalls
       \/ input \in BuildCalls
       \/ input \in IdentityCalls
       \/ input \in KSACalls
       \/ input \in TokenExpCalls
       \/ input \in LimitsCalls
       \/ input \in ResyncCalls

FnNext ==
    \/ PredicateGSMSecret
    \/ PredicateSecret
    \/ MapKeys
    \/ BuildOpaque
    \/ GetCredentials
    \/ GetKSA
    \/ GetTokenExpSeconds
    \/ TokenRequestLimits
    \/ GetResyncInterval

FnSpec == FnInit /\ [][FnNext]_vars

----------------------------------------------------------------------------
(* Authentication step by step: worker goroutines of the controller, each  *)
(* running Reconcile invocations one after another, every remote call a    *)
(* step of its own, with the package variables of getInClusterKubeClient   *)
(* shared between them.  The content of the objects is left to Spec.       *)

MaxInvocations == 2    \* Reconcile invocations of one worker

Workers == {"w1", "w2"}

LowerLetters ==
    <<"a", "b", "c", "d", "e", "f", "g", "h", "i", "j", "k", "l", "m",
      "n", "o", "p", "q", "r", "s", "t", "u", "v", "w", "x", "y", "z">>
UpperLetters ==
    <<"A", "B", "C", "D", "E", "F", "G", "H", "I", "J", "K", "L", "M",
      "N", "O", "P", "Q", "R", "S", "T", "U", "V", "W", "X", "Y", "Z">>

\* strings.ToUpper on one character
ToUpper(c) ==
    IF \E i \in 1..26 : LowerLetters[i] = c
    THEN UpperLetters[CHOOSE i \in 1..26 : LowerLetters[i] = c]
    ELSE c

modeTrustedSubsystem ==
    <<"T", "R", "U", "S", "T", "E", "D", "_", "S", "U", "B", "S", "Y", "S", "T", "E", "M">>

\* an isTrustedSubsystem that compares MODE without regard to case
isTrustedSubsystemFold(environ) ==
    [i \in 1..Len(environ.MODE) |-> ToUpper(environ.MODE[i])] = modeTrustedSubsystem

\* isTrustedSubsystem(): os.Getenv("MODE") == "TRUSTED_SUBSYSTEM"
isTrustedSubsystem(environ) == environ.MODE = modeTrustedSubsystem

\* a newGsmClient that never federates
newGsmClientAmbient(environ) == "ambient"

\* newGsmClient(ctx): the identity the Secret Manager client is built for
newGsmClientIdentity(environ) ==
    IF isTrustedSubsystem(environ) THEN "ambient" ELSE "federated"

\* a sync.Once whose Do runs the function whenever nobody else is running it
onceNotRunning(once) == once # "running"

\* sync.Once.Do: the caller runs the function when nobody has before
onceFirst(once) == once = "new"

\* what rest.InClusterConfig and kubernetes.NewForConfig may do
InitOutcomes == {"config error", "client error", "ok"}

\* the function getInClusterKubeClient gives to kubeClientOnce.Do: it
\* assigns kubeClientErr or kubeClient, and Do marks the Once done
kubeClientInit(k, outcome) ==
    [once |-> "done",
     client |-> IF outcome = "ok" THEN "clientset" ELSE k.client,
     err |-> IF outcome = "config error" THEN "build in-cluster config"
             ELSE IF outcome = "client error" THEN "create Kubernetes client"
             ELSE k.err,
     inits |-> k.inits + 1]

jwt == <<"j", "w", "t">>
accessToken == <<"a", "t">>

\* what the API server may answer to CreateToken (err "timeout": the
\* context of requestKSAToken expired)
TokenResponses ==
    {[err |-> e, Token |-> <<>>] : e \in {"forbidden", "not found", "timeout"}}
        \cup {[err |-> Nil, Token |-> t] : t \in {<<>>, jwt}}

\* what the token exchange endpoint may answer
STSResponses ==
    {[err |-> "STS exchange failed", AccessToken |-> <<>>]}
        \cup {[err |-> Nil, AccessToken |-> t] : t \in {<<>>, accessToken}}

NoToken == [Token |-> <<>>, by |-> <<>>]
NoCreds == [AccessToken |-> <<>>, subject |-> NoToken]
NoClient == [identity |-> "none", creds |-> NoCreds]

\* requestKSAToken after CreateToken: the error shaped, an empty token
\* refused, else the token (by: the invocation it was issued to)
requestKSATokenResult(resp, by) ==
    IF resp.err = "forbidden"
    THEN [err |-> "request KSA token: token request forbidden", token |-> NoToken]
    ELSE IF resp.err = "not found"
    THEN [err |-> "request KSA token: serviceaccount not found", token |-> NoToken]
    ELSE IF resp.err # Nil
    THEN [err |-> "request KSA token: token request failed", token |-> NoToken]
    ELSE IF resp.Token = <<>>
    THEN [err |-> "request KSA token: token request succeeded but token was empty",
          token |-> NoToken]
    ELSE [err |-> Nil, token |-> [Token |-> resp.Token, by |-> by]]

\* gcpCredsFromK8sToken(ctx, k8sToken, wifAudience) after the exchange: the
\* credentials wrap the access token of the response as it came
gcpCredsFromK8sToken(token, resp) ==
    IF resp.err # Nil
    THEN [err |-> "exchange KSA token for Google credentials: exchange KSA token via STS",
          creds |-> NoCreds]
    ELSE [err |-> Nil, creds |-> [AccessToken |-> resp.AccessToken, subject |-> token]]

\* no invocation yet
IdleWorker ==
    [pc |-> "idle",
     inv |-> 0,               \* history: the invocations this worker has started
     gsmSecret |-> NotFound,  \* the GSMSecret Reconcile loaded
     identity |-> "none",     \* the branch newGsmClient took
     kubeGot |-> <<>>,        \* what getKubeClient returned: <<client, error>>
     token |-> NoToken,       \* what requestKSAToken returned
     creds |-> NoCreds,       \* what gcpCredsFromK8sToken returned
     client |-> NoClient,     \* the Secret Manager client of newGsmClient
     reason |-> "",           \* the reason of setStatusCondition
     phaseErr |-> Nil,        \* the error of the phase that failed
     returned |-> Nil,        \* the error Reconcile returned
     calls |-> <<>>]          \* history: the remote calls of this invocation

\* the GSMSecret objects r.Get may return
AuthGSMSecret(entries) ==
    [NewGSMSecret("g1", entries, <<>>) EXCEPT !.Namespace = <<"n", "s">>]
        @@ [Annotations |-> <<>>]
AuthGSMSecrets == {AuthGSMSecret(entries) : entries \in {<<>>, <<entryA>>, <<entryA, entryB>>}}

ModeValues ==
    {<<>>, modeTrustedSubsystem,
     <<"t", "r", "u", "s", "t", "e", "d", "_", "s", "u", "b", "s", "y", "s", "t", "e", "m">>}

AuthInit ==
    /\ env \in [MODE : ModeValues, KSA : {<<>>}, WIFAUDIENCE : {<<>>, <<"e">>}]
    /\ gsm = [g \in GSMs |-> NotFound]
    /\ secrets = NotFound
    /\ gsmStore = [n \in StoreNames |->
                     IF n = secretVersionName(entryA) THEN payV1
                     ELSE IF n = secretVersionName(entryB) THEN payV2 ELSE payDoc]
    /\ rvCounter = 0
    /\ now = 0
    /\ rec = [g \in GSMs |-> IdleRec]
    /\ hist = [g \in GSMs |-> <<>>]
    /\ runsLeft = 0
    /\ extLeft = 0
    /\ input = NoCall
    /\ output = NoCall
    /\ kube = KubeNew
    /\ work = [w \in Workers |-> IdleWorker]
    /\ mgr = NoMgr

\* history: the worker made a remote call
Called(r, call) == [r EXCEPT !.calls = Append(r.calls, call)]

\* a failure path that asks for the token a second time before giving up
authRetryOnce(r, reason, err) ==
    IF Cardinality({i \in 1..Len(r.calls) : r.calls[i] = "CreateToken"}) = 1
    THEN [r EXCEPT !.pc = "createToken"]
    ELSE [r EXCEPT !.pc = "status", !.reason = reason, !.phaseErr = err]

\* a phase failed: Reconcile reports it under reason and will return err
authFailure(r, reason, err) ==
    [r EXCEPT !.pc = "status", !.reason = reason, !.phaseErr = err]

\* Reconcile from its r.Get to the first remote call of resolvePayloads:
\* the new materializer, nothing to fetch for an empty spec.gsmSecrets,
\* newGsmClient's branch, and getCredentials and requestKSAToken up to
\* getKubeClient
afterAuthGet(started, got, environ) ==
    LET r == [started EXCEPT !.gsmSecret = got.object]
        identity == newGsmClientIdentity(environ)
        request == tokenRequest(environ, got.object)
    IN  IF got.err = "api error"
        THEN [started EXCEPT !.pc = "done", !.phaseErr = "api error",
                             !.returned = "api error"]
        ELSE IF got.err = "not found" THEN [started EXCEPT !.pc = "done"]
        ELSE IF Len(got.object.Spec.Secrets) = 0 THEN [r EXCEPT !.pc = "applyGet"]
        ELSE IF identity = "ambient"
        THEN [r EXCEPT !.pc = "newClient", !.identity = identity]
        ELSE IF request.err # Nil
        THEN authFailure([r EXCEPT !.identity = identity], "FetchFailed", request.err)
        ELSE [r EXCEPT !.pc = "getKubeClient", !.identity = identity]

\* Reconcile, step 1: r.Get of the GSMSecret
AuthReconcileGet(w) ==
    /\ work[w].pc \in {"idle", "done"}
    /\ work[w].inv < MaxInvocations
    /\ \E got \in {[err |-> e, object |-> NotFound] : e \in {"api error", "not found"}}
                    \cup {[err |-> Nil, object |-> o] : o \in AuthGSMSecrets} :
         work' = [work EXCEPT ![w] =
                    afterAuthGet([IdleWorker EXCEPT !.inv = work[w].inv + 1,
                                                    !.calls = <<"Get GSMSecret">>],
                                 got, env)]
    /\ UNCHANGED <<kube, mgr, input, output, env, gsm, secrets, gsmStore, rvCounter, now,
                   rec, hist, runsLeft, extLeft>>

\* getInClusterKubeClient: kubeClientOnce.Do entered by the first caller;
\* later callers wait while the function runs, and once it is done they
\* return kubeClient and kubeClientErr
OnceDo(w) ==
    /\ work[w].pc = "getKubeClient"
    /\ IF onceFirst(kube.once)
       THEN /\ kube' = [kube EXCEPT !.once = "running"]
            /\ work' = [work EXCEPT ![w].pc = "onceInit"]
       ELSE /\ kube.once = "done"
            /\ work' = [work EXCEPT ![w] =
                  IF kube.err # Nil
                  THEN authFailure([work[w] EXCEPT !.kubeGot = <<kube.client, kube.err>>],
                                   "FetchFailed", "request KSA token: " \o kube.err)
                  ELSE [work[w] EXCEPT !.pc = "createToken",
                                       !.kubeGot = <<kube.client, kube.err>>]]
            /\ UNCHANGED kube
    /\ UNCHANGED <<mgr, input, output, env, gsm, secrets, gsmStore, rvCounter, now,
                   rec, hist, runsLeft, extLeft>>

\* the function of kubeClientOnce.Do runs, and Do returns
OnceInit(w) ==
    /\ work[w].pc = "onceInit"
    /\ \E outcome \in InitOutcomes : kube' = kubeClientInit(kube, outcome)
    /\ work' = [work EXCEPT ![w].pc = "getKubeClient"]
    /\ UNCHANGED <<mgr, input, output, env, gsm, secrets, gsmStore, rvCounter, now,
                   rec, hist, runsLeft, extLeft>>

\* requestKSAToken: CreateToken under the request's timeout
CreateToken(w) ==
    /\ work[w].pc = "createToken"
    /\ \E resp \in TokenResponses :
       \E got \in {requestKSATokenResult(resp, <<w, work[w].inv>>)} :
         work' = [work EXCEPT ![w] =
                    IF got.err # Nil
                    THEN authFailure(Called(work[w], "CreateToken"), "FetchFailed", got.err)
                    ELSE [Called(work[w], "CreateToken") EXCEPT
                             !.pc = "exchange", !.token = got.token]]
    /\ UNCHANGED <<kube, mgr, input, output, env, gsm, secrets, gsmStore, rvCounter, now,
                   rec, hist, runsLeft, extLeft>>

\* gcpCredsFromK8sToken: exchangeK8sTokenWithSTS and the credentials
ExchangeToken(w) ==
    /\ work[w].pc = "exchange"
    /\ \E resp \in STSResponses :
       \E got \in {gcpCredsFromK8sToken(work[w].token, resp)} :
         work' = [work EXCEPT ![w] =
                    IF got.err # Nil
                    THEN authFailure(Called(work[w], "ExchangeToken"), "FetchFailed", got.err)
                    ELSE [Called(work[w], "ExchangeToken") EXCEPT
                             !.pc = "newClient", !.creds = got.creds]]
    /\ UNCHANGED <<kube, mgr, input, output, env, gsm, secrets, gsmStore, rvCounter, now,
                   rec, hist, runsLeft, extLeft>>

\* newGsmClient: secretmanager.NewClient, with the credentials when there
\* are any
NewClient(w) ==
    /\ work[w].pc = "newClient"
    /\ \E failed \in BOOLEAN :
         work' = [work EXCEPT ![w] =
                    IF failed
                    THEN authFailure(work[w], "FetchFailed", "secretmanager.NewClient")
                    ELSE [work[w] EXCEPT
                             !.pc = "fetch",
                             !.client = [identity |-> work[w].identity,
                                         creds |-> work[w].creds]]]
    /\ UNCHANGED <<kube, mgr, input, output, env, gsm, secrets, gsmStore, rvCounter, now,
                   rec, hist, runsLeft, extLeft>>

\* resolvePayloads: fetchSecretEntriesPayloads with the client, the
\* client closed, and buildOpaqueSecret
FetchEntries(w) ==
    /\ work[w].pc = "fetch"
    /\ \E failAt \in 0..Len(work[w].gsmSecret.Spec.Secrets) :
       \E got \in {fetchSecretEntriesPayloads(work[w].gsmSecret.Spec.Secrets, gsmStore,
                                              failAt)} :
       \E built \in {buildOpaqueSecret(work[w].gsmSecret, got.payloads)} :
       \E r \in {[work[w] EXCEPT
                    !.calls = work[w].calls
                                \o [i \in 1..got.fetched |-> "AccessSecretVersion"]]} :
         work' = [work EXCEPT ![w] =
                    IF got.err # Nil THEN authFailure(r, "FetchFailed", got.err)
                    ELSE IF built.err # Nil THEN authFailure(r, "BuildFailed", built.err)
                    ELSE [r EXCEPT !.pc = "applyGet"]]
    /\ UNCHANGED <<kube, mgr, input, output, env, gsm, secrets, gsmStore, rvCounter, now,
                   rec, hist, runsLeft, extLeft>>

\* what applySecret's r.Get may find
TargetOutcomes == {"api error", "not found", "found", "owned by another"}

\* applySecret: r.Get of the Secret
AuthApplyGet(w) ==
    /\ work[w].pc = "applyGet"
    /\ \E got \in TargetOutcomes :
         work' = [work EXCEPT ![w] =
                    IF got = "api error"
                    THEN authFailure(Called(work[w], "Get Secret"), "ApplyFailed", got)
                    ELSE IF got = "not found"
                    THEN [Called(work[w], "Get Secret") EXCEPT !.pc = "applyCreate"]
                    ELSE IF got = "owned by another"
                    THEN authFailure(Called(work[w], "Get Secret"), "ApplyFailed",
                                     "failed to set controller reference on existing secret")
                    ELSE [Called(work[w], "Get Secret") EXCEPT !.pc = "applyUpdate"]]
    /\ UNCHANGED <<kube, mgr, input, output, env, gsm, secrets, gsmStore, rvCounter, now,
                   rec, hist, runsLeft, extLeft>>

\* applySecret: r.Create or r.Update
AuthApplyWrite(w) ==
    /\ work[w].pc \in {"applyCreate", "applyUpdate"}
    /\ \E failed \in BOOLEAN :
       \E r \in {Called(work[w], IF work[w].pc = "applyCreate" THEN "Create Secret"
                                 ELSE "Update Secret")} :
         work' = [work EXCEPT ![w] =
                    IF failed THEN authFailure(r, "ApplyFailed", "api error")
                    ELSE [r EXCEPT !.pc = "status", !.reason = "Synced"]]
    /\ UNCHANGED <<kube, mgr, input, output, env, gsm, secrets, gsmStore, rvCounter, now,
                   rec, hist, runsLeft, extLeft>>

\* Reconcile's last step: setStatusCondition and the return, with which
\* the locals of the invocation are gone
AuthStatus(w) ==
    /\ work[w].pc = "status"
    /\ \E failed \in BOOLEAN :
         work' = [work EXCEPT ![w] =
                    [Called(work[w], "Update GSMSecret status") EXCEPT
                        !.pc = "done",
                        !.gsmSecret = NotFound, !.identity = "none", !.kubeGot = <<>>,
                        !.token = NoToken, !.creds = NoCreds, !.client = NoClient,
                        !.returned = reconcileResult(work[w].phaseErr,
                                                     IF failed THEN "api error" ELSE Nil,
                                                     [RESYNC_INTERVAL_SECONDS |-> <<>>]).err]]
    /\ UNCHANGED <<kube, mgr, input, output, env, gsm, secrets, gsmStore, rvCounter, now,
                   rec, hist, runsLeft, extLeft>>

AuthNext ==
    \/ \E w \in Workers : AuthReconcileGet(w)
    \/ \E w \in Workers : OnceDo(w)
    \/ \E w \in Workers : OnceInit(w)
    \/ \E w \in Workers : CreateToken(w)
    \/ \E w \in Workers : ExchangeToken(w)
    \/ \E w \in Workers : NewClient(w)
    \/ \E w \in Workers : FetchEntries(w)
    \/ \E w \in Workers : AuthApplyGet(w)
    \/ \E w \in Workers : AuthApplyWrite(w)
    \/ \E w \in Workers : AuthStatus(w)

AuthSpec == AuthInit /\ [][AuthNext]_vars

\* every remote call returns, and a goroutine that can run does
AuthFairSpec ==
    AuthSpec /\ \A w \in Workers :
                  /\ WF_vars(OnceDo(w)) /\ WF_vars(OnceInit(w))
                  /\ WF_vars(CreateToken(w)) /\ WF_vars(ExchangeToken(w))
                  /\ WF_vars(NewClient(w)) /\ WF_vars(FetchEntries(w))
                  /\ WF_vars(AuthApplyGet(w)) /\ WF_vars(AuthApplyWrite(w))
                  /\ WF_vars(AuthStatus(w))

----------------------------------------------------------------------------
(* The controller under its manager: the informers of SetupWithManager     *)
(* with their predicates, the work queue, and what the manager does with   *)
(* the result and the error Reconcile returns.  Reconcile itself is the    *)
(* one of Spec, started for a request taken from the queue.                *)

\* the GSMSecret as gsmSecretChangedPredicate reads it
watchedGSMSecret(object) ==
    [Generation |-> object.Generation, Annotations |-> <<>>]

\* the Secret as secretDataChangedPredicate reads it
watchedSecret(object) ==
    [Kind |-> "Secret", Type |-> object.Type,
     Data |-> DataMap(FALSE, [k \in DOMAIN object.Data |-> Bytes(FALSE, object.Data[k])])]

\* a watch without predicates
everyEventPasses(old, new) == TRUE

\* For(&GSMSecret{}, WithPredicates(gsmSecretChangedPredicate{})): create
\* and delete events pass (predicate.Funcs), update events go to Update
gsmSecretEventPasses(old, new) ==
    IF old = NotFound \/ new = NotFound THEN TRUE
    ELSE gsmSecretChangedUpdate(watchedGSMSecret(old), watchedGSMSecret(new))

\* a Secret watch that lets update events pass for a change of the data only
secretEventPassesData(old, new) ==
    IF old = NotFound \/ new = NotFound THEN TRUE
    ELSE ~secretDataEqual(watchedSecret(old).Data, watchedSecret(new).Data)

\* Owns(&Secret{}, WithPredicates(secretDataChangedPredicate{})): the same
\* for the Secret
secretEventPasses(old, new) ==
    IF old = NotFound \/ new = NotFound THEN TRUE
    ELSE secretDataChangedUpdate(watchedSecret(old), watchedSecret(new))

\* Owns: the requests an event on object is mapped to, the GSMSecret that
\* is its controller
ownerRequests(object) ==
    IF object = NotFound THEN {}
    ELSE {g \in GSMs : \E i \in 1..Len(object.OwnerReferences) :
                          /\ object.OwnerReferences[i].Controller
                          /\ object.OwnerReferences[i].Kind = "GSMSecret"
                          /\ object.OwnerReferences[i].Name = g}

\* the manager after SetupWithManager, before the informers have listed
MgrIdle ==
    [queue |-> [g \in GSMs |-> {}],       \* the work queue: why each request is in it
     resync |-> [g \in GSMs |-> FALSE],   \* AddAfter(RequeueAfter) is pending
     retry |-> [g \in GSMs |-> FALSE],    \* AddRateLimited is pending
     cause |-> [g \in GSMs |-> {}],       \* history: why the last invocation started
     seenGSM |-> [g \in GSMs |-> NotFound],   \* the informers' last delivered objects
     seenSecret |-> NotFound,
     atStart |-> [g \in GSMs |->         \* history: when the last invocation started,
                    [ext |-> 0,           \*   the steps left to everybody else, and
                     caughtUp |-> FALSE]]]  \* whether the informers had delivered all

\* the queue with request g added for cause
Enqueued(m, g, cause) == [m EXCEPT !.queue[g] = m.queue[g] \cup {cause}]

\* a manager that puts every request back at once
reconcileHandlerRequeue(m, g, result) == Enqueued(m, g, "requeue")

\* the manager once Reconcile has returned: an error is retried with
\* backoff, RequeueAfter is honoured otherwise
reconcileHandler(m, g, result) ==
    IF result.err # Nil THEN [m EXCEPT !.retry[g] = TRUE]
    ELSE IF result.RequeueAfter > 0 THEN [m EXCEPT !.resync[g] = TRUE]
    ELSE m

\* the spec.gsmSecrets lists of MgrSpec: one that can be materialized, one
\* that cannot (entryA and entryB ask for the same key)
MgrSpecChoices == {<<entryA>>, <<entryA, entryB>>}

\* the Secrets other API clients write in MgrSpec: one that another
\* controller has taken, and the owned Secret with its type changed
MgrSecretChoices ==
    {ExtSecret(SecretTypeOpaque, (K1 :> payV2), FALSE, <<foreignOwner(TRUE)>>)}
    \cup {ExtSecret(SecretTypeTLS, (K1 :> payV1), FALSE,
                    <<controllerRef(NewGSMSecret(g, <<>>, <<>>))>>) : g \in GSMs}

\* the Secret an earlier run of the operator has left for gsmSecret, if its
\* entries can be materialized from store
materialized(gsmSecret, store) ==
    LET resolved == resolvePayloads(gsmSecret, store, TRUE, 0)
        built == buildOpaqueSecret(gsmSecret, resolved.payloads)
    IN  IF resolved.err # Nil \/ built.err # Nil THEN NotFound
        ELSE SetControllerReference(gsmSecret, built.secret).object

\* the operator starts: the Secret is not there yet, or is there from an
\* earlier run and known to its informer; the GSMSecrets are still to be
\* listed
MgrInit ==
    /\ env = [RESYNC_INTERVAL_SECONDS |-> <<>>]
    /\ gsm \in {f \in [GSMs -> UNION {InitGSMSecrets(g) : g \in GSMs}] :
                    \A g \in GSMs : /\ f[g] \in InitGSMSecrets(g)
                                    /\ f[g].Spec.Secrets \in MgrSpecChoices}
    /\ gsmStore = [n \in StoreNames |->
                     IF n = secretVersionName(entryA) THEN payV1
                     ELSE IF n = secretVersionName(entryB) THEN payV2 ELSE payDoc]
    /\ secrets \in {NotFound} \cup {materialized(gsm[g], gsmStore) : g \in GSMs}
    /\ rvCounter = 0
    /\ now = 0
    /\ rec = [g \in GSMs |-> IdleRec]
    /\ hist = [g \in GSMs |-> <<>>]
    /\ runsLeft = MaxRuns
    /\ extLeft = MaxExt
    /\ input = NoCall
    /\ output = NoCall
    /\ kube = KubeNew
    /\ work = NoWork
    /\ mgr = [MgrIdle EXCEPT !.seenSecret = secrets]

\* the GSMSecret informer delivers the change it has not delivered yet
WatchGSMSecret(g) ==
    /\ mgr.seenGSM[g] # gsm[g]
    /\ mgr' = [(IF gsmSecretEventPasses(mgr.seenGSM[g], gsm[g])
                THEN Enqueued(mgr, g, "event") ELSE mgr)
               EXCEPT !.seenGSM[g] = gsm[g]]
    /\ UNCHANGED <<kube, work, input, output, env, gsm, secrets, gsmStore, rvCounter, now,
                   rec, hist, runsLeft, extLeft>>

\* the Secret informer delivers the change it has not delivered yet
WatchSecret ==
    /\ mgr.seenSecret # secrets
    /\ \E owners \in {IF secretEventPasses(mgr.seenSecret, secrets)
                      THEN ownerRequests(mgr.seenSecret) \cup ownerRequests(secrets)
                      ELSE {}} :
         mgr' = [mgr EXCEPT
                    !.seenSecret = secrets,
                    !.queue = [g \in GSMs |-> IF g \in owners
                                              THEN mgr.queue[g] \cup {"event"}
                                              ELSE mgr.queue[g]]]
    /\ UNCHANGED <<kube, work, input, output, env, gsm, secrets, gsmStore, rvCounter, now,
                   rec, hist, runsLeft, extLeft>>

\* the interval of RequeueAfter has passed
ResyncTimer(g) ==
    /\ mgr.resync[g]
    /\ mgr' = [Enqueued(mgr, g, "resync") EXCEPT !.resync[g] = FALSE]
    /\ UNCHANGED <<kube, work, input, output, env, gsm, secrets, gsmStore, rvCounter, now,
                   rec, hist, runsLeft, extLeft>>

\* the backoff of the rate limiter has passed
RetryTimer(g) ==
    /\ mgr.retry[g]
    /\ mgr' = [Enqueued(mgr, g, "retry") EXCEPT !.retry[g] = FALSE]
    /\ UNCHANGED <<kube, work, input, output, env, gsm, secrets, gsmStore, rvCounter, now,
                   rec, hist, runsLeft, extLeft>>

\* a worker takes request g from the queue and calls Reconcile, which
\* starts with its r.Get of the GSMSecret
MgrDequeue(g) ==
    /\ mgr.queue[g] # {}
    /\ rec[g].pc = "idle"
    /\ runsLeft > 0
    /\ runsLeft' = runsLeft - 1
    /\ mgr' = [mgr EXCEPT !.queue[g] = {}, !.cause[g] = mgr.queue[g],
                          !.atStart[g] =
                              [ext |-> extLeft,
                               caughtUp |-> mgr.seenGSM[g] = gsm[g] /\ mgr.seenSecret = secrets]]
    /\ \E apiErr \in BOOLEAN :
         rec' = [rec EXCEPT ![g] =
                    afterGet([IdleRec EXCEPT !.calls = <<"Get GSMSecret">>], gsm[g], apiErr)]
    /\ UNCHANGED <<kube, work, input, output, env, gsm, secrets, gsmStore, rvCounter, now,
                   hist, extLeft>>

\* Reconcile has returned: the manager requeues the request as the
\* result and the error say
MgrReturn(g) ==
    /\ rec[g].pc = "done"
    /\ rec' = [rec EXCEPT ![g].pc = "idle"]
    /\ mgr' = reconcileHandler(mgr, g, rec[g].result)
    /\ UNCHANGED <<kube, work, input, output, env, gsm, secrets, gsmStore, rvCounter, now,
                   hist, runsLeft, extLeft>>

MgrNext ==
    \/ \E g \in GSMs : WatchGSMSecret(g)
    \/ WatchSecret
    \/ \E g \in GSMs : ResyncTimer(g)
    \/ \E g \in GSMs : RetryTimer(g)
    \/ \E g \in GSMs : MgrDequeue(g)
    \/ \E g \in GSMs : MgrReturn(g)
    \/ \E g \in GSMs : Materialize(g)
    \/ \E g \in GSMs : ApplyGet(g)
    \/ \E g \in GSMs : ApplyCreate(g)
    \/ \E g \in GSMs : ApplyUpdate(g)
    \/ \E g \in GSMs : StatusUpdate(g)
    \/ \E g \in GSMs, entries \in MgrSpecChoices : ExtUpdateSpec(g, entries)
    \/ \E g \in GSMs : ExtDeleteGSMSecret(g)
    \/ \E object \in MgrSecretChoices : ExtWriteSecret(object)
    \/ ExtDeleteSecret
    \/ \E payload \in Payloads : ExtStoreChange(secretVersionName(entryA), payload)

MgrSpec == MgrInit /\ [][MgrNext]_vars

\* timers expire, informers deliver, a worker takes what is queued, and
\* every call of a Reconcile under way returns
MgrFairSpec ==
    MgrSpec /\ \A g \in GSMs :
                 /\ WF_vars(WatchGSMSecret(g)) /\ WF_vars(WatchSecret)
                 /\ WF_vars(ResyncTimer(g)) /\ WF_vars(RetryTimer(g))
                 /\ WF_vars(MgrDequeue(g)) /\ WF_vars(MgrReturn(g))
                 /\ WF_vars(Materialize(g)) /\ WF_vars(ApplyGet(g))
                 /\ WF_vars(ApplyCreate(g)) /\ WF_vars(ApplyUpdate(g))
                 /\ WF_vars(StatusUpdate(g))

----------------------------------------------------------------------------
(* Two GSMSecrets of one namespace that name the same target Secret, each  *)
(* reconciled by its own invocation of Reconcile, the steps of the two     *)
(* interleaved in every way.                                               *)

Rivals == {"g1", "g2"}

\* the two GSMSecrets: the same key from two secrets of Secret Manager
RivalGSMSecret(g) ==
    NewGSMSecret(g, IF g = "g1" THEN <<entryA>> ELSE <<entryB>>, <<otherCondition>>)

RivalInit ==
    /\ env = [RESYNC_INTERVAL_SECONDS |-> <<>>]
    /\ gsm = [g \in Rivals |-> RivalGSMSecret(g)]
    /\ secrets \in {NotFound} \cup ExtSecretChoices
    /\ gsmStore = [n \in StoreNames |->
                     IF n = secretVersionName(entryA) THEN payV1
                     ELSE IF n = secretVersionName(entryB) THEN payV2 ELSE payDoc]
    /\ rvCounter = 0
    /\ now = 0
    /\ rec = [g \in Rivals |-> IdleRec]
    /\ hist = [g \in Rivals |-> <<>>]
    /\ runsLeft = MaxRuns
    /\ extLeft = 0
    /\ input = NoCall
    /\ output = NoCall
    /\ kube = KubeNew
    /\ work = NoWork
    /\ mgr = NoMgr

RivalNext ==
    \/ \E g \in Rivals : ReconcileGet(g)
    \/ \E g \in Rivals : Materialize(g)
    \/ \E g \in Rivals : ApplyGet(g)
    \/ \E g \in Rivals : ApplyCreate(g)
    \/ \E g \in Rivals : ApplyUpdate(g)
    \/ \E g \in Rivals : StatusUpdate(g)

RivalSpec == RivalInit /\ [][RivalNext]_vars

----------------------------------------------------------------------------
(* What the claims speak of.                                               *)

\* the reference that names GSMSecret g as the controller
OwnerOf(g) == [Kind |-> "GSMSecret", Name |-> g, UID |-> <<"uid", g>>, Controller |-> TRUE]

\* the Ready conditions of a GSMSecret object
ReadyConditions(object) ==
    SelectSeq(object.Status.Conditions, LAMBDA c : c.Type = "Ready")

\* the last apply g made to the Secret as it is stored now
LastApply(g) == hist[g][Len(hist[g])]

\* the phases of g's invocation that failed, each with its error
FailedPhases(g) ==
    SelectSeq(rec[g].phases, LAMBDA ph : ph[2] # Nil /\ ph # <<"fetch", "not found">>)

ReasonOfPhase(phase) ==
    CASE phase = "resolve" -> "FetchFailed"
      [] phase = "build" -> "BuildFailed"
      [] phase = "apply" -> "ApplyFailed"
      [] OTHER -> "none"

\* g's invocation has returned, and with an error
Failed(g) == rec[g].pc = "done" /\ rec[g].result.err # Nil

\* the target keys and values the entries stand for, one after the other:
\* an entry with a key is its payload, an entry with mappings one
\* occurrence for each mapping
EntryOccurrences(e, store) ==
    LET data == store[secretVersionName(e)]
        doc == jsonUnmarshal(data).v
    IN  IF e.Key # <<>> THEN <<[Key |-> e.Key, Value |-> data]>>
        ELSE [j \in 1..Len(e.Keys) |->
                [Key |-> IF Head(e.Keys[j].Key) = "/"
                         THEN GetByPointer(doc, e.Keys[j].Key).v.s
                         ELSE e.Keys[j].Key,
                 Value |-> jsonMarshal(GetByPointer(doc, e.Keys[j].Value).v)]]

RECURSIVE Occurrences(_, _)
Occurrences(entries, store) ==
    IF entries = <<>> THEN <<>>
    ELSE EntryOccurrences(Head(entries), store) \o Occurrences(Tail(entries), store)

\* each entry of the list resolves when it is the only one
EachEntryResolves(entries, store) ==
    \A i \in 1..Len(entries) : fetchSecretEntriesPayloads(<<entries[i]>>, store, 0).err = Nil

----------------------------------------------------------------------------
(* The claims.                                                             *)

\* C1: When applySecret updates a Secret that was found without any owner
\* reference, the stored Secret has exactly one owner reference, the one
\* naming the reconciled GSMSecret as controller, and the labels and
\* annotations it was found with.
C1_Adoption ==
    \A g \in GSMs :
        (hist[g] # <<>> /\ LastApply(g).op = "update"
            /\ LastApply(g).found.OwnerReferences = <<>>)
        => /\ secrets # NotFound
           /\ secrets.OwnerReferences = <<OwnerOf(g)>>
           /\ secrets.Labels = LastApply(g).found.Labels
           /\ secrets.Annotations = LastApply(g).found.Annotations

\* an unowned Secret with labels and annotations has been adopted
C1_Witness ==
    \E g \in GSMs :
        /\ hist[g] # <<>> /\ LastApply(g).op = "update"
        /\ LastApply(g).found.OwnerReferences = <<>>
        /\ LastApply(g).found.Labels # <<>>
        /\ LastApply(g).found.Annotations # <<>>
        /\ secrets # NotFound

\* C2: When a GSMSecret's apply created the Secret and its next apply is of
\* the same built object, one Secret is stored, its owner references are
\* the GSMSecret's alone, and the second apply left the data, the type and
\* the owner references it found.
C2_IdempotentApply ==
    \A g \in GSMs :
        (Len(hist[g]) = 2 /\ hist[g][1].op = "create"
            /\ hist[g][2].desired = hist[g][1].desired)
        => /\ secrets # NotFound
           /\ secrets.OwnerReferences = <<OwnerOf(g)>>
           /\ hist[g][2].op = "update"
           /\ secrets.Data = hist[g][2].found.Data
           /\ secrets.Type = hist[g][2].found.Type
           /\ secrets.OwnerReferences = hist[g][2].found.OwnerReferences

\* the same built object has been applied twice, the first time by Create
C2_Witness ==
    \E g \in GSMs :
        /\ Len(hist[g]) = 2 /\ hist[g][1].op = "create" /\ hist[g][2].op = "update"
        /\ hist[g][2].desired = hist[g][1].desired
        /\ hist[g][2].desired.Data # <<>>

\* C3: After applySecret succeeded, by Create or by Update, the stored
\* Secret's data and type are the built Secret's: no key of the Secret it
\* found survives unless the built data has it.
C3_DataAndTypeReplaced ==
    \A g \in GSMs :
        hist[g] # <<>>
        => /\ secrets # NotFound
           /\ secrets.Data = LastApply(g).desired.Data
           /\ secrets.Type = LastApply(g).desired.Type

\* an update has removed a key and changed the type of the Secret it found
C3_Witness ==
    \E g \in GSMs :
        /\ hist[g] # <<>> /\ LastApply(g).op = "update"
        /\ DOMAIN LastApply(g).found.Data \ DOMAIN LastApply(g).desired.Data # {}
        /\ LastApply(g).found.Type # LastApply(g).desired.Type
        /\ secrets # NotFound

\* C4: The built Secret's data has exactly the target keys the entries
\* stand for, taken in spec.gsmSecrets order and within an entry in mapping
\* order, each with the value of its last occurrence; and a list whose
\* entries each resolve fails only when authentication or a fetch does,
\* never because a key repeats.
C4_LastWriteWins ==
    \A g \in GSMs :
        /\ rec[g].pc = "applyGet"
           => LET occ == Occurrences(rec[g].gsmSecret.Spec.Secrets, gsmStore)
                  data == rec[g].desired.Data
              IN  /\ DOMAIN data = {occ[i].Key : i \in 1..Len(occ)}
                  /\ \A i \in 1..Len(occ) :
                        (\A j \in (i + 1)..Len(occ) : occ[j].Key # occ[i].Key)
                        => data[occ[i].Key] = occ[i].Value
        /\ (rec[g].pc = "status"
               /\ EachEntryResolves(rec[g].gsmSecret.Spec.Secrets, gsmStore))
           => rec[g].phaseErr \in {"exchange KSA token for Google credentials",
                                   "fetch payload"}

\* a key of the first entry is produced again by a mapping of the second,
\* and the built value is the mapping's (a JSON string, in its quotes)
C4_Witness ==
    \E g \in GSMs :
        /\ rec[g].pc = "applyGet"
        /\ rec[g].gsmSecret.Spec.Secrets = <<entryC, entryMapped>>
        /\ gsmStore[secretVersionName(entryC)] = payV2
        /\ rec[g].desired.Data = (K2 :> <<"\"", "v", "1", "\"">>) @@ (K1 :> <<"7">>)

\* C5: When Reconcile has returned after its resolve, build or apply phase
\* failed, it reported Ready False with the reason FetchFailed, BuildFailed
\* or ApplyFailed of that phase and returned that phase's error, whether
\* or not the status write failed; when the write succeeded the stored
\* Ready condition is the reported one.
C5_PhaseFailureReported ==
    \A g \in GSMs :
        (rec[g].pc = "done" /\ FailedPhases(g) # <<>>
            /\ FailedPhases(g)[1][1] \in {"resolve", "build", "apply"})
        => /\ rec[g].report.Status = "False"
           /\ rec[g].report.Reason = ReasonOfPhase(FailedPhases(g)[1][1])
           /\ rec[g].result.err = FailedPhases(g)[1][2]
           /\ "Update GSMSecret status" \in {rec[g].calls[i] : i \in 1..Len(rec[g].calls)}
           /\ (rec[g].statusErr = Nil /\ gsm[g] # NotFound)
              => /\ Len(ReadyConditions(gsm[g])) = 1
                 /\ ReadyConditions(gsm[g])[1].Status = "False"
                 /\ ReadyConditions(gsm[g])[1].Reason = ReasonOfPhase(FailedPhases(g)[1][1])

\* the resolve phase failed and so did the status write: the error returned
\* is the resolve phase's
C5_Witness ==
    \E g \in GSMs :
        /\ rec[g].pc = "done"
        /\ Len(FailedPhases(g)) = 2
        /\ FailedPhases(g)[1][1] = "resolve"
        /\ FailedPhases(g)[2] = <<"status", "conflict">>
        /\ rec[g].result.err = FailedPhases(g)[1][2]

\* C6 as stated: every invocation that has returned an error left the
\* GSMSecret with a Ready condition of status False whose reason names a
\* phase.
C6_EveryFailureUpdatesReady ==
    \A g \in GSMs :
        (Failed(g) /\ gsm[g] # NotFound)
        => /\ Len(ReadyConditions(gsm[g])) = 1
           /\ ReadyConditions(gsm[g])[1].Status = "False"
           /\ ReadyConditions(gsm[g])[1].Reason \in {"FetchFailed", "BuildFailed", "ApplyFailed"}

\* C6: An invocation that has returned an error either failed to load the
\* GSMSecret and made no status write, or failed in its status write, or
\* left the GSMSecret with one Ready condition, of status False and with
\* the reason of the phase that failed.
C6_FailureUpdatesReadyWhenItCan ==
    \A g \in GSMs :
        (Failed(g) /\ gsm[g] # NotFound)
        => \/ /\ rec[g].phases = <<<<"fetch", "api error">>>>
              /\ rec[g].calls = <<"Get GSMSecret">>
           \/ rec[g].statusErr # Nil
           \/ /\ Len(ReadyConditions(gsm[g])) = 1
              /\ ReadyConditions(gsm[g])[1].Status = "False"
              /\ ReadyConditions(gsm[g])[1].Reason = ReasonOfPhase(FailedPhases(g)[1][1])
              /\ ReadyConditions(gsm[g])[1].Reason # "none"

\* an invocation failed in its apply phase at a later time, and the stored
\* condition is False, ApplyFailed
C6_Witness ==
    \E g \in GSMs :
        /\ Failed(g) /\ gsm[g] # NotFound /\ rec[g].statusErr = Nil
        /\ FailedPhases(g) # <<>> /\ FailedPhases(g)[1][1] = "apply"
        /\ ReadyConditions(gsm[g])[1].Reason = "ApplyFailed"
        /\ ReadyConditions(gsm[g])[1].LastTransitionTime > 0

\* C7: An invocation that has returned returned nil exactly when the
\* GSMSecret was not found, or when its fetch, resolve, build, apply and
\* status write all succeeded.
C7_NilOnlyOnSuccess ==
    \A g \in GSMs :
        rec[g].pc = "done"
        => (rec[g].result.err = Nil
            <=> \/ rec[g].phases = <<<<"fetch", "not found">>>>
                \/ rec[g].phases = <<<<"fetch", Nil>>, <<"resolve", Nil>>, <<"build", Nil>>,
                                     <<"apply", Nil>>, <<"status", Nil>>>>)

\* only the last status write failed, and Reconcile returned its error
C7_Witness ==
    \E g \in GSMs :
        /\ rec[g].pc = "done"
        /\ rec[g].phases = <<<<"fetch", Nil>>, <<"resolve", Nil>>, <<"build", Nil>>,
                             <<"apply", Nil>>, <<"status", "api error">>>>
        /\ rec[g].result.err = "api error"

\* C8: The step in which Reconcile returns nil after its phases succeeded
\* stores one Ready condition, True and Synced, with the GSMSecret's
\* generation as the condition's and the status's observedGeneration, and
\* returns RequeueAfter the resync interval (RESYNC_INTERVAL_SECONDS when
\* set, five minutes otherwise); a Reconcile that returns an error returns
\* no RequeueAfter.
C8_SuccessReportedAndResynced ==
    [][\A g \in GSMs :
          (rec[g].pc = "status" /\ rec'[g].pc = "done")
          => IF rec'[g].result.err = Nil
             THEN /\ Len(ReadyConditions(gsm'[g])) = 1
                  /\ ReadyConditions(gsm'[g])[1].Status = "True"
                  /\ ReadyConditions(gsm'[g])[1].Reason = "Synced"
                  /\ ReadyConditions(gsm'[g])[1].ObservedGeneration = gsm'[g].Generation
                  /\ gsm'[g].Status.ObservedGeneration = gsm'[g].Generation
                  /\ rec'[g].result.RequeueAfter =
                        (IF env.RESYNC_INTERVAL_SECONDS = <<"7">> THEN 7 ELSE 300)
             ELSE rec'[g].result.RequeueAfter = 0]_vars

\* a changed GSMSecret has been reconciled with RESYNC_INTERVAL_SECONDS=7
C8_Witness ==
    \E g \in GSMs :
        /\ rec[g].pc = "done" /\ rec[g].result = [err |-> Nil, RequeueAfter |-> 7]
        /\ Len(rec[g].phases) = 5
        /\ gsm[g] # NotFound
        /\ gsm[g].Generation = 2
        /\ gsm[g].Status.ObservedGeneration = 2

\* C9: The step in which Reconcile finds no GSMSecret returns nil with an
\* empty result, having made no call but the Get, and changes neither the
\* GSMSecret store, the target Secret nor the Secret Manager store.
C9_AbsentIsSuccess ==
    [][\A g \in GSMs :
          (runsLeft' < runsLeft /\ rec'[g].phases = <<<<"fetch", "not found">>>>)
          => /\ gsm[g] = NotFound
             /\ rec'[g].pc = "done"
             /\ rec'[g].result = [err |-> Nil, RequeueAfter |-> 0]
             /\ rec'[g].calls = <<"Get GSMSecret">>
             /\ UNCHANGED <<gsm, secrets, gsmStore, rvCounter>>]_vars

\* Reconcile ran for a deleted GSMSecret whose Secret is still stored
C9_Witness ==
    \E g \in GSMs :
        /\ rec[g].pc = "done" /\ rec[g].phases = <<<<"fetch", "not found">>>>
        /\ gsm[g] = NotFound
        /\ secrets # NotFound

\* C10: A status write that succeeds stores one Ready condition with the
\* reported status, reason and message and the GSMSecret's generation; its
\* lastTransitionTime is the stored Ready condition's when that one has the
\* reported status, and the current time when it has another status or
\* there is none.
C10_LastTransitionTime ==
    [][\A g \in GSMs :
          (rec[g].pc = "status" /\ rec'[g].pc = "done" /\ rec'[g].statusErr = Nil)
          => LET old == ReadyConditions(gsm[g])
                 new == ReadyConditions(gsm'[g])
             IN  /\ Len(new) = 1
                 /\ new[1].Status = rec[g].report.Status
                 /\ new[1].Reason = rec[g].report.Reason
                 /\ new[1].Message = rec[g].report.Message
                 /\ new[1].ObservedGeneration = gsm[g].Generation
                 /\ gsm'[g].Status.ObservedGeneration = gsm[g].Generation
                 /\ new[1].LastTransitionTime =
                        (IF old # <<>> /\ old[1].Status = rec[g].report.Status
                         THEN old[1].LastTransitionTime ELSE now)]_vars

\* a second report of the same status, at a later time, kept the first
\* report's lastTransitionTime and took the new reason
C10_Witness ==
    \E g \in GSMs :
        /\ rec[g].pc = "done" /\ rec[g].statusErr = Nil /\ gsm[g] # NotFound
        /\ rec[g].reportedAt = 1
        /\ ReadyConditions(gsm[g])[1].LastTransitionTime = 0
        /\ ReadyConditions(gsm[g])[1].Status = "False"
        /\ ReadyConditions(gsm[g])[1].Reason = "ApplyFailed"

\* a recognized annotation is on one object and not on the other, or on
\* both with different values
AnnotationDiffers(old, new, key) ==
    \/ (key \in DOMAIN old.Annotations) # (key \in DOMAIN new.Annotations)
    \/ /\ key \in DOMAIN old.Annotations /\ key \in DOMAIN new.Annotations
       /\ old.Annotations[key] # new.Annotations[key]

\* the same, but an annotation whose value is empty counts as not there
AnnotationValueDiffers(old, new, key) ==
    \/ /\ key \notin DOMAIN old.Annotations
       /\ key \in DOMAIN new.Annotations /\ new.Annotations[key] # <<>>
    \/ /\ key \notin DOMAIN new.Annotations
       /\ key \in DOMAIN old.Annotations /\ old.Annotations[key] # <<>>
    \/ /\ key \in DOMAIN old.Annotations /\ key \in DOMAIN new.Annotations
       /\ old.Annotations[key] # new.Annotations[key]

RecognizedAnnotations ==
    {"secrets.gsm-operator.io/ksa", "secrets.gsm-operator.io/gsa",
     "secrets.gsm-operator.io/wif-audience", "secrets.gsm-operator.io/release"}

\* C11 as stated: the GSMSecret update predicate answers reconcile exactly
\* when the generation differs or one of the four recognized annotations
\* differs, an annotation that appears or disappears being a difference.
C11_ReconcileIffChanged ==
    output.fn = "gsmSecretChangedPredicate"
    => (output.result
        <=> \/ input.old.Generation # input.new.Generation
            \/ \E key \in RecognizedAnnotations :
                  AnnotationDiffers(input.old, input.new, key))

\* C11: The GSMSecret update predicate answers reconcile exactly when the
\* generation differs or the value of one of the four recognized
\* annotations differs, an annotation that is absent having the empty
\* value; changes of status, labels and other annotations alone are
\* skipped.
C11_ReconcileIffValueChanged ==
    output.fn = "gsmSecretChangedPredicate"
    => (output.result
        <=> \/ input.old.Generation # input.new.Generation
            \/ \E key \in RecognizedAnnotations :
                  AnnotationValueDiffers(input.old, input.new, key))

\* the release annotation appeared with a value, nothing else changed, and
\* the predicate answered reconcile
C11_Witness ==
    /\ output.fn = "gsmSecretChangedPredicate"
    /\ output.result
    /\ input.old.Generation = input.new.Generation
    /\ input.old.Annotations = <<>>
    /\ input.new.Annotations = ("secrets.gsm-operator.io/release" :> <<"a">>)

\* the entries of a data map, a nil map having none
EntriesOf(data) == IF data.isNil THEN <<>> ELSE data.m

\* two data maps differ as key-to-bytes maps
DataDiffers(a, b) ==
    \/ DOMAIN EntriesOf(a) # DOMAIN EntriesOf(b)
    \/ \E k \in DOMAIN EntriesOf(a) \cap DOMAIN EntriesOf(b) :
          EntriesOf(a)[k].b # EntriesOf(b)[k].b

\* C12: The Secret update predicate answers reconcile exactly when the type
\* differs or the data differ as key-to-bytes maps (other key sets, or a
\* value with other bytes; a nil map and an empty map are the same); an
\* update of resourceVersion, labels or annotations alone is skipped.
C12_ReconcileIffDataOrTypeChanged ==
    (output.fn = "secretDataChangedPredicate"
        /\ input.old.Kind = "Secret" /\ input.new.Kind = "Secret")
    => (output.result
        <=> \/ input.old.Type # input.new.Type
            \/ DataDiffers(input.old.Data, input.new.Data))

\* an update from a nil to an empty data map that changes every piece of
\* metadata is skipped
C12_Witness ==
    /\ output.fn = "secretDataChangedPredicate"
    /\ ~output.result
    /\ input.old.Kind = "Secret" /\ input.new.Kind = "Secret"
    /\ input.old.Data.isNil /\ ~input.new.Data.isNil
    /\ input.old.ResourceVersion # input.new.ResourceVersion
    /\ input.old.Labels # input.new.Labels
    /\ input.old.Annotations # input.new.Annotations

\* the syntax of a Secret data key: one or more of A-Z a-z 0-9 . _ -
KeySyntax(key) ==
    /\ Len(key) > 0
    /\ \A i \in 1..Len(key) : key[i] \in Upper \cup Lower \cup Digit \cup {".", "_", "-"}

\* entry e asks for a target key outside the syntax: its own key, a literal
\* mapping key, or the string a mapping's key pointer finds in the payload
AsksBadKey(e, store) ==
    \/ e.Key # <<>> /\ ~KeySyntax(e.Key)
    \/ \E j \in 1..Len(e.Keys) :
          LET key == e.Keys[j].Key
              name == secretVersionName(e)
          IN  IF key # <<>> /\ Head(key) = "/"
              THEN /\ name \in DOMAIN store
                   /\ jsonUnmarshal(store[name]).ok
                   /\ GetByPointer(jsonUnmarshal(store[name]).v, key).ok
                   /\ GetByPointer(jsonUnmarshal(store[name]).v, key).v.t = "string"
                   /\ ~KeySyntax(GetByPointer(jsonUnmarshal(store[name]).v, key).v.s)
              ELSE TrimSpace(key) # <<>> /\ ~KeySyntax(key)

\* g's invocation has not written the target Secret
NoTargetWrite(g) ==
    /\ secrets = NotFound
    /\ \A i \in 1..Len(rec[g].calls) : rec[g].calls[i] \notin {"Create Secret", "Update Secret"}

\* C13: Every key of the data of the Secret the controller is about to
\* create or update is non-empty and made of letters, digits, '.', '_' and
\* '-' only, whichever of an entry key, a literal mapping key or a
\* pointer-resolved mapping key it came from; and when an entry asks for a
\* key outside that syntax the invocation reports FetchFailed and has not
\* written the target Secret.
C13_KeysMatchSyntax ==
    \A g \in GSMs :
        /\ rec[g].pc = "applyGet"
           => LET occ == Occurrences(rec[g].gsmSecret.Spec.Secrets, gsmStore)
              IN  /\ \A k \in DOMAIN rec[g].desired.Data : KeySyntax(k)
                  /\ \A i \in 1..Len(occ) : KeySyntax(occ[i].Key)
        /\ (rec[g].pc \in {"applyGet", "status"}
               /\ \E i \in 1..Len(rec[g].gsmSecret.Spec.Secrets) :
                     AsksBadKey(rec[g].gsmSecret.Spec.Secrets[i], gsmStore))
           => /\ rec[g].pc = "status"
              /\ rec[g].report.Status = ConditionFalse
              /\ rec[g].report.Reason = "FetchFailed"
              /\ rec[g].desired = NotFound
              /\ NoTargetWrite(g)

\* the second entry's key has a space: both payloads were fetched, the key
\* was refused and nothing was written
C13_Witness ==
    \E g \in GSMs :
        /\ rec[g].pc = "status"
        /\ rec[g].gsmSecret.Spec.Secrets = <<entryA, entryBadKey>>
        /\ rec[g].phaseErr = "validate key"
        /\ Len(rec[g].requested) = 2
        /\ NoTargetWrite(g)

\* entry e sets both a key and mappings / sets neither
SetsBoth(e) == e.Key # <<>> /\ Len(e.Keys) > 0
SetsNeither(e) == e.Key = <<>> /\ Len(e.Keys) = 0

\* the first entry of the list that sets both or neither (0: none does)
FirstInvalid(entries) ==
    LET bad == {i \in 1..Len(entries) : SetsBoth(entries[i]) \/ SetsNeither(entries[i])}
    IN  IF bad = {} THEN 0 ELSE CHOOSE i \in bad : \A j \in bad : i <= j

\* C14: When an entry of spec.gsmSecrets sets both a key and mappings, or
\* neither, the resolve phase fails: the invocation reports FetchFailed, no
\* payload reaches the builder and the target Secret is not written. When
\* the entries before the first such entry each resolve, the error is that
\* entry's validation error unless authentication or a fetch failed first;
\* an entry with both is refused before its payload is fetched, an entry
\* with neither after.
C14_BothOrNeitherRejected ==
    \A g \in GSMs :
        LET entries == rec[g].gsmSecret.Spec.Secrets
            i == FirstInvalid(entries)
            message == IF SetsBoth(entries[i])
                       THEN "invalid GSMSecret entry: cannot set both key and keys"
                       ELSE "invalid GSMSecret entry: either key or keys must be set"
        IN  (rec[g].pc \in {"applyGet", "status"} /\ i > 0)
            => /\ rec[g].pc = "status"
               /\ rec[g].report.Status = ConditionFalse
               /\ rec[g].report.Reason = "FetchFailed"
               /\ rec[g].desired = NotFound
               /\ NoTargetWrite(g)
               /\ EachEntryResolves(SubSeq(entries, 1, i - 1), gsmStore)
                  => /\ rec[g].phaseErr \in {"exchange KSA token for Google credentials",
                                             "fetch payload", message}
                     /\ rec[g].phaseErr = message
                        => Len(rec[g].requested) = IF SetsBoth(entries[i]) THEN i - 1 ELSE i

\* the second entry sets both: the first payload was fetched, the second
\* was not asked for, and nothing was written
C14_Witness ==
    \E g \in GSMs :
        /\ rec[g].pc = "status"
        /\ rec[g].gsmSecret.Spec.Secrets = <<entryA, entryBoth>>
        /\ rec[g].phaseErr = "invalid GSMSecret entry: cannot set both key and keys"
        /\ rec[g].requested = <<secretVersionName(entryA)>>
        /\ NoTargetWrite(g)

\* what each pointer of the model finds in each JSON document of the model
\* (a pointer or a document not listed finds nothing)
Found ==
    {[data |-> payDoc, pointer |-> <<"/", "k">>, kind |-> "string", text |-> <<"K", "2">>],
     [data |-> payDoc, pointer |-> <<"/", "v">>, kind |-> "string", text |-> <<"v", "1">>],
     [data |-> payDoc, pointer |-> <<"/", "n">>, kind |-> "number", text |-> <<"7">>],
     [data |-> payBad, pointer |-> <<"/", "k">>, kind |-> "string", text |-> <<"b", " ", "k">>],
     [data |-> payNested, pointer |-> <<"/", "a", "/", "b">>, kind |-> "string", text |-> <<"x">>],
     [data |-> payNested, pointer |-> <<"/", "a">>, kind |-> "object", text |-> <<>>],
     [data |-> payNested, pointer |-> <<"/", "n">>, kind |-> "number", text |-> <<"7">>]}

FoundAt(data, pointer) == {f \in Found : f.data = data /\ f.pointer = pointer}
TheFound(data, pointer) == CHOOSE f \in FoundAt(data, pointer) : TRUE

\* the payloads of the model that are JSON
IsJSON(data) == data \in {payDoc, payBad, payNested, payString}

\* the JSON text of what a pointer found: a string in its quotes, a number as it is
Reserialized(f) == IF f.kind = "string" THEN <<"\"">> \o f.text \o <<"\"">> ELSE f.text

\* the target key a mapping stands for
MappedKey(data, mapping) ==
    IF Head(mapping.Key) = "/" THEN TheFound(data, mapping.Key).text ELSE mapping.Key

\* the failures the expansion has for one mapping: a pointer that does not
\* resolve, a key pointer that finds something other than a string, a
\* resolved key outside the key syntax
MappingFails(data, mapping) ==
    \/ FoundAt(data, mapping.Value) = {}
    \/ /\ Head(mapping.Key) = "/"
       /\ \/ FoundAt(data, mapping.Key) = {}
          \/ TheFound(data, mapping.Key).kind # "string"
          \/ ~KeySyntax(TheFound(data, mapping.Key).text)

\* what else the code refuses: a blank key or pointer, a literal key outside
\* the key syntax
MappingRefused(mapping) ==
    \/ TrimSpace(mapping.Key) = <<>>
    \/ TrimSpace(mapping.Value) = <<>>
    \/ Head(mapping.Key) # "/" /\ ~KeySyntax(mapping.Key)

\* C15: mapKeysToSecretKeyMappings decodes the payload as JSON and gives one
\* payload for each mapping, in order: its value is the JSON text of what
\* the value pointer finds (a string in its quotes), its key the mapping's
\* key, or the string the key finds when the key starts with '/'. It
\* returns an error and no payloads when the payload is not JSON, a pointer
\* does not resolve, a key pointer finds something that is not a string,
\* or the resolved key is outside the key syntax; it returns an error in no
\* other case but a blank key or pointer or an invalid literal key.
C15_MappingExpansion ==
    output.fn = "mapKeysToSecretKeyMappings"
    => LET data == input.data
           mappings == input.mappings
           result == output.result
           fails == \E j \in 1..Len(mappings) : MappingFails(data, mappings[j])
           refused == \E j \in 1..Len(mappings) : MappingRefused(mappings[j])
       IN  /\ (~IsJSON(data) \/ fails) => (result.err # Nil /\ result.payloads = <<>>)
           /\ result.err # Nil => (~IsJSON(data) \/ fails \/ refused)
           /\ result.err # Nil => result.payloads = <<>>
           /\ result.err = Nil
              => /\ Len(result.payloads) = Len(mappings)
                 /\ \A j \in 1..Len(mappings) :
                       /\ result.payloads[j].Key = MappedKey(data, mappings[j])
                       /\ result.payloads[j].Value
                             = Reserialized(TheFound(data, mappings[j].Value))

\* the key is found by pointer and the value is a JSON string, kept in its
\* quotes; the second mapping's value is a number
C15_Witness ==
    /\ output.fn = "mapKeysToSecretKeyMappings"
    /\ input.data = payDoc
    /\ input.mappings = <<Mapping(<<"/", "k">>, <<"/", "v">>), Mapping(K1, <<"/", "n">>)>>
    /\ output.result = [err |-> Nil,
                        payloads |-> <<[Key |-> K2, Value |-> <<"\"", "v", "1", "\"">>],
                                       [Key |-> K1, Value |-> <<"7">>]>>]

\* projects/<project>/secrets/<secret>/versions/<version>, an empty version
\* read as "latest"
NameWithLatestDefault(e) ==
    <<"p", "r", "o", "j", "e", "c", "t", "s", "/">> \o e.ProjectID
        \o <<"/", "s", "e", "c", "r", "e", "t", "s", "/">> \o e.SecretID
        \o <<"/", "v", "e", "r", "s", "i", "o", "n", "s", "/">>
        \o (IF e.Version = <<>> THEN <<"l", "a", "t", "e", "s", "t">> ELSE e.Version)

\* C16: The name AccessSecretVersion is asked for, for each entry the
\* invocation fetched, is projects/<project>/secrets/<secret>/versions/<version>
\* of that entry, with "latest" in place of an empty version.
C16_NameWithLatestDefault ==
    \A g \in GSMs :
        rec[g].pc \in {"applyGet", "status"}
        => \A i \in 1..Len(rec[g].requested) :
              rec[g].requested[i] = NameWithLatestDefault(rec[g].gsmSecret.Spec.Secrets[i])

\* C17: buildOpaqueSecret returns a Secret of type Opaque, named by
\* spec.targetSecret in the GSMSecret's namespace, whose data has exactly the
\* keys of the payloads, each with the bytes of the last payload of that
\* key, empty and binary values as they are, and an empty map for no
\* payloads; with a payload of empty key it returns an error and no
\* Secret; it calls no API and writes nothing.
C17_BuildOpaqueSecret ==
    output.fn = "buildOpaqueSecret"
    => LET payloads == input.payloads
           result == output.result
           last(k) == CHOOSE i \in 1..Len(payloads) :
                         /\ payloads[i].Key = k
                         /\ \A j \in (i + 1)..Len(payloads) : payloads[j].Key # k
       IN  /\ IF \E i \in 1..Len(payloads) : payloads[i].Key = <<>>
              THEN result.err # Nil /\ result.secret = <<>>
              ELSE /\ result.err = Nil
                   /\ result.secret.Type = "Opaque"
                   /\ result.secret.Name = input.gsmSecret.Spec.TargetSecret
                   /\ result.secret.Namespace = input.gsmSecret.Namespace
                   /\ DOMAIN result.secret.Data
                         = {payloads[i].Key : i \in 1..Len(payloads)}
                   /\ \A k \in DOMAIN result.secret.Data :
                         result.secret.Data[k] = payloads[last(k)].Value
                   /\ payloads = <<>> => result.secret.Data = <<>>
           /\ secrets = NotFound
           /\ gsmStore = <<>>
           /\ \A g \in GSMs : rec[g].calls = <<>>

\* an empty value and a binary value, each under its key, in another
\* namespace than the default
C17_Witness ==
    /\ output.fn = "buildOpaqueSecret"
    /\ input.gsmSecret.Namespace = "team-a"
    /\ input.payloads = <<[Key |-> K1, Value |-> <<>>], [Key |-> K2, Value |-> binaryValue]>>
    /\ output.result.err = Nil
    /\ output.result.secret.Namespace = "team-a"
    /\ output.result.secret.Data = (K1 :> <<>>) @@ (K2 :> binaryValue)

\* the value of an annotation without the whitespace around it ("" when the
\* annotation is absent)
Trimmed(annotations, key) ==
    IF key \in DOMAIN annotations THEN TrimSpace(annotations[key]) ELSE <<>>

\* C18: The audience of the token request is the WIFAUDIENCE environment
\* value when that is non-empty, otherwise the value of the wif-audience
\* annotation without the whitespace around it; when neither is non-empty
\* getCredentials fails with the error that the audience is not set, and no
\* token is requested.
C18_AudienceEnvThenAnnotation ==
    output.fn = "getCredentials"
    => LET fromEnv == input.environ.WIFAUDIENCE
           fromAnnotation == Trimmed(input.gsmSecret.Annotations, AnnotationWIFAudience)
           result == output.result
       IN  /\ (fromEnv = <<>> /\ fromAnnotation = <<>>)
              <=> result.err = "get WIF audience: WIFAudience not set"
           /\ result.err = Nil
              => result.request.Audience = IF fromEnv # <<>> THEN fromEnv ELSE fromAnnotation
           /\ result.err # Nil => result.request.Audience = <<>>

\* with the variable empty the annotation's value is the audience, trimmed
C18_Witness ==
    /\ output.fn = "getCredentials"
    /\ input.environ.WIFAUDIENCE = <<>>
    /\ annotationValue(input.gsmSecret.Annotations, AnnotationWIFAudience) = <<" ", "a", "\t">>
    /\ output.result.err = Nil
    /\ output.result.request.Audience = <<"a">>

\* C19, as stated: The ServiceAccount the token is requested for is the ksa
\* annotation when it is present, otherwise the KSA environment value,
\* otherwise "default".
C19_AnnotationThenEnv ==
    (output.fn = "getCredentials" /\ output.result.err = Nil)
    => LET fromEnv == input.environ.KSA
           fromAnnotation == Trimmed(input.gsmSecret.Annotations, AnnotationKSA)
       IN  output.result.request.KSA
              = IF fromAnnotation # <<>> THEN fromAnnotation
                ELSE IF fromEnv # <<>> THEN fromEnv
                ELSE defaultKSAName

\* C19: The ServiceAccount the token is requested for, in the GSMSecret's
\* namespace, is the KSA environment value when that is non-empty,
\* otherwise the value of the ksa annotation without the whitespace around
\* it when that is non-empty, otherwise "default".
C19_EnvThenAnnotation ==
    (output.fn = "getCredentials" /\ output.result.err = Nil)
    => LET fromEnv == input.environ.KSA
           fromAnnotation == Trimmed(input.gsmSecret.Annotations, AnnotationKSA)
       IN  /\ output.result.request.Namespace = input.gsmSecret.Namespace
           /\ output.result.request.KSA
                 = IF fromEnv # <<>> THEN fromEnv
                   ELSE IF fromAnnotation # <<>> THEN fromAnnotation
                   ELSE defaultKSAName

\* both are set, and the token is requested for the environment's name
C19_Witness ==
    /\ output.fn = "getCredentials"
    /\ input.environ.KSA = <<"e">>
    /\ annotationValue(input.gsmSecret.Annotations, AnnotationKSA) = <<"a">>
    /\ output.result.err = Nil
    /\ output.result.request.KSA = <<"e">>

\* C20: getKSA returns the KSA environment value when it and the ksa
\* annotation are both non-empty (and whenever it is non-empty); with the
\* variable empty it returns the annotation without the whitespace around
\* it, when that leaves anything; with neither it returns "default".
C20_GetKSA ==
    output.fn = "getKSA"
    => LET fromEnv == input.environ.KSA
           annotation == annotationValue(input.annotations, AnnotationKSA)
       IN  /\ fromEnv # <<>> => output.result = fromEnv
           /\ (fromEnv = <<>> /\ TrimSpace(annotation) # <<>>)
              => output.result = TrimSpace(annotation)
           /\ (fromEnv = <<>> /\ TrimSpace(annotation) = <<>>)
              => output.result = <<"d", "e", "f", "a", "u", "l", "t">>

\* the variable is empty and the annotation is padded: the name is trimmed
C20_Witness ==
    /\ output.fn = "getKSA"
    /\ input.environ.KSA = <<>>
    /\ annotationValue(input.annotations, AnnotationKSA) = <<" ", "a", "\t">>
    /\ output.result = <<"a">>

\* the TOKEN_EXP_SECONDS values of the model, by what they ask for
LifetimeBelowFloor == {<<"1">>, <<"3", "0", "0">>, <<"5", "9", "9">>}
LifetimeAtLeastFloor ==
    {<<"6", "0", "0">>, <<"6", "0", "1">>, <<"1", "2", "0", "0">>, <<"9", "2", "2", "3", "3", "7", "2", "0", "3", "7">>, <<"1", "8", "4", "4", "6", "7", "4", "4", "0", "7", "3", "7", "0", "9", "5", "5", "1", "6", "1", "5">>}
LifetimeUnsetZeroOrUnparsable ==
    {<<>>, <<"0">>, <<"-", "5">>, <<"+", "5">>, <<"a", "b", "c">>, <<" ", "6", "0", "0">>, <<"1", "e", "3">>, <<"1", "8", "4", "4", "6", "7", "4", "4", "0", "7", "3", "7", "0", "9", "5", "5", "1", "6", "1", "6">>}

\* C22: getTokenExpSeconds returns 600 for a configured lifetime below 600
\* seconds, the configured lifetime when it is 600 seconds or more, and the
\* default of 600 when TOKEN_EXP_SECONDS is unset, zero or does not parse.
C22_TokenLifetimeFloor ==
    output.fn = "getTokenExpSeconds"
    => LET v == input.environ.TOKEN_EXP_SECONDS
       IN  /\ v \in LifetimeBelowFloor => output.result = <<"6", "0", "0">>
           /\ v \in LifetimeAtLeastFloor => output.result = v
           /\ v \in LifetimeUnsetZeroOrUnparsable => output.result = <<"6", "0", "0">>
           /\ v = <<"0", "6", "0", "0">> => output.result = <<"6", "0", "0">>

\* 300 seconds are asked for and 600 are returned
C22_Witness ==
    /\ output.fn = "getTokenExpSeconds"
    /\ input.environ.TOKEN_EXP_SECONDS = <<"3", "0", "0">>
    /\ output.result = <<"6", "0", "0">>

\* the RESYNC_INTERVAL_SECONDS values of the model that are positive
\* integers, with the seconds they stand for
ResyncPositive ==
    {<<<<"7">>, <<"7">>>>, <<<<"3", "0", "0">>, <<"3", "0", "0">>>>, <<<<"3", "6", "0", "0">>, <<"3", "6", "0", "0">>>>, <<<<"0", "0", "7">>, <<"7">>>>, <<<<"+", "7">>, <<"7">>>>, <<<<"9", "2", "2", "3", "3", "7", "2", "0", "3", "6">>, <<"9", "2", "2", "3", "3", "7", "2", "0", "3", "6">>>>, <<<<"9", "2", "2", "3", "3", "7", "2", "0", "3", "7">>, <<"9", "2", "2", "3", "3", "7", "2", "0", "3", "7">>>>, <<<<"1", "8", "4", "4", "6", "7", "4", "4", "0", "7", "4">>, <<"1", "8", "4", "4", "6", "7", "4", "4", "0", "7", "4">>>>}
ResyncUnsetOrInvalid ==
    {<<>>, <<"0">>, <<"-", "3">>, <<"a", "b", "c">>, <<" ", "7">>, <<"7", "s">>, <<"9", "2", "2", "3", "3", "7", "2", "0", "3", "6", "8", "5", "4", "7", "7", "5", "8", "0", "8">>}

\* C23: getResyncInterval returns the configured number of seconds when
\* RESYNC_INTERVAL_SECONDS parses as a positive integer, and 5 minutes when
\* it is unset, zero, negative or does not parse.
C23_ResyncInterval ==
    output.fn = "getResyncInterval"
    => LET v == input.environ.RESYNC_INTERVAL_SECONDS
           nanos(seconds) == [neg |-> FALSE,
                              digits |-> seconds \o <<"0", "0", "0", "0", "0", "0",
                                                      "0", "0", "0">>]
       IN  /\ \A p \in ResyncPositive : v = p[1] => output.result = nanos(p[2])
           /\ v \in ResyncUnsetOrInvalid => output.result = nanos(<<"3", "0", "0">>)

\* C24: With TOKEN_EXP_SECONDS and HTTP_TIMEOUT_SECONDS unset, the token
\* request runs under a timeout of 10 seconds, and the timeout of HTTP calls
\* is 30 seconds.
C24_DefaultTimeouts ==
    (output.fn = "requestKSAToken"
        /\ input.environ.TOKEN_EXP_SECONDS = <<>>
        /\ input.environ.HTTP_TIMEOUT_SECONDS = <<>>)
    => /\ output.result.timeout
             = [neg |-> FALSE, digits |-> <<"1", "0", "0", "0", "0", "0", "0", "0", "0",
                                            "0", "0">>]
       /\ output.http = <<"3", "0">>

\* the remote calls named call that invocation record r has made
Attempts(r, call) == Cardinality({i \in 1..Len(r.calls) : r.calls[i] = call})

\* the trusted-mode flag: MODE is TRUSTED_SUBSYSTEM, letter for letter
TrustedMode == env.MODE = modeTrustedSubsystem

\* C21: with MODE exactly TRUSTED_SUBSYSTEM an invocation requests no
\* ServiceAccount token and exchanges none, and its Secret Manager client
\* is built without credentials (the ambient identity of the process);
\* with any other MODE the client is built with the credentials of the
\* exchange, after a token request and an exchange.
C21_TrustedModeSkipsFederation ==
    \A w \in Workers :
        /\ TrustedMode =>
              /\ Attempts(work[w], "CreateToken") = 0
              /\ Attempts(work[w], "ExchangeToken") = 0
              /\ work[w].pc \notin {"getKubeClient", "onceInit", "createToken", "exchange"}
              /\ work[w].client \in {NoClient, [identity |-> "ambient", creds |-> NoCreds]}
        /\ ~TrustedMode =>
              /\ work[w].client.identity \in {"none", "federated"}
              /\ work[w].client.identity = "federated" =>
                    /\ Attempts(work[w], "CreateToken") = 1
                    /\ Attempts(work[w], "ExchangeToken") = 1
                    /\ work[w].client.creds = work[w].creds
                    /\ work[w].creds.subject = work[w].token
              /\ work[w].pc # "done" /\ Attempts(work[w], "AccessSecretVersion") > 0 =>
                    work[w].client.identity = "federated"

\* a trusted-mode invocation has read an entry with the ambient identity
C21_Witness ==
    /\ TrustedMode
    /\ \E w \in Workers :
          /\ Attempts(work[w], "AccessSecretVersion") > 0
          /\ work[w].client.identity = "ambient"

\* the invocation of worker w has come to build, or has built, its Secret
\* Manager client
AtClient(w) ==
    \/ work[w].pc \in {"newClient", "fetch"}
    \/ work[w].client # NoClient
    \/ work[w].pc # "done" /\ Attempts(work[w], "AccessSecretVersion") > 0

\* C25: in federated mode an invocation that comes to build its Secret
\* Manager client has made one token request and one exchange of its own,
\* the client carries the credentials of that exchange (issued to this
\* worker's current invocation), and no two workers hold the same
\* credentials.
C25_FreshCredentials ==
    ~TrustedMode =>
        \A w \in Workers :
            /\ AtClient(w) =>
                  /\ Attempts(work[w], "CreateToken") = 1
                  /\ Attempts(work[w], "ExchangeToken") = 1
                  /\ work[w].token.by = <<w, work[w].inv>>
                  /\ work[w].creds.subject = work[w].token
            /\ work[w].client # NoClient =>
                  /\ work[w].client.creds = work[w].creds
                  /\ \A v \in Workers \ {w} : work[v].creds # work[w].client.creds

\* a worker's second invocation has read an entry with credentials issued
\* to that invocation
C25_Witness ==
    /\ ~TrustedMode
    /\ \E w \in Workers :
          /\ work[w].inv = 2
          /\ Attempts(work[w], "AccessSecretVersion") > 0
          /\ work[w].client.creds.subject.by = <<w, 2>>

\* what getKubeClient has handed to the invocation of worker w, if anything
Handed(w) == work[w].kubeGot

\* C26: whatever the interleaving of the workers, the function given to
\* kubeClientOnce.Do runs at most once, whether it sets the client or the
\* error; every caller of getInClusterKubeClient is handed the client and
\* the error it left; and once it has run, kubeClient and kubeClientErr
\* are never assigned again.
C26_KubeClientInitOnce ==
    [][/\ kube'.inits <= 1
       /\ kube.once = "done" => kube' = kube
       /\ \A w \in Workers :
             Handed(w)' # <<>> =>
                /\ kube'.once = "done"
                /\ Handed(w)' = <<kube'.client, kube'.err>>
                /\ \A v \in Workers : Handed(v)' # <<>> => Handed(v)' = Handed(w)']_vars

\* both workers have been handed the result of the one initialization,
\* one of them in its second invocation
C26_Witness ==
    /\ kube.inits = 1
    /\ Handed("w1") # <<>>
    /\ Handed("w2") # <<>>
    /\ work["w1"].inv = 2

\* both workers have been handed the error of a failed initialization
C26_WitnessError ==
    /\ kube.inits = 1
    /\ kube.err # Nil
    /\ Handed("w1") = <<Nil, kube.err>>
    /\ Handed("w2") = <<Nil, kube.err>>

\* the remote calls an invocation makes at most once
SingleCalls ==
    {"Get GSMSecret", "CreateToken", "ExchangeToken", "Get Secret",
     "Update GSMSecret status"}

\* the invocation of worker w is under way
Running(w) == work[w].pc \notin {"idle", "done"}

C30_EmptyTokensRejected ==
    \A w \in Workers :
        work[w].identity = "federated" =>
            /\ work[w].pc \in {"exchange", "newClient", "fetch"} => work[w].token.Token # <<>>
            /\ work[w].pc \in {"newClient", "fetch"} => work[w].creds.AccessToken # <<>>
            /\ work[w].client # NoClient => work[w].client.creds.AccessToken # <<>>

\* an empty token from CreateToken has ended the invocation with the
\* error of requestKSAToken, before any exchange
C30_EmptyTokenRefused ==
    \E w \in Workers :
        /\ work[w].pc = "done"
        /\ work[w].returned =
              "request KSA token: token request succeeded but token was empty"
        /\ Attempts(work[w], "ExchangeToken") = 0

\* the payload of entryA in Secret Manager is no longer the first one
StoreChanged == gsmStore[secretVersionName(entryA)] # payV1

\* this step is the Reconcile for g writing the Secret, and what it
\* writes under K1 is the changed payload
DeliversChange(g) ==
    /\ rec[g].pc \in {"applyCreate", "applyUpdate"}
    /\ secrets' # secrets
    /\ StoreChanged
    /\ K1 \in DOMAIN secrets'.Data
    /\ secrets'.Data[K1] = gsmStore[secretVersionName(entryA)]

\* a step that changes Secret Manager touches neither the work queue, the
\* timers and the informers, nor any invocation
StoreChangeEnqueuesNothing == gsmStore' # gsmStore => mgr' = mgr /\ rec' = rec

\* C28 as stated: a change in Secret Manager enqueues nothing, and an
\* invocation that was not started by an event and delivers the changed
\* payload was started by the resync timer alone.
C28_OnlyResyncDelivers ==
    [][/\ StoreChangeEnqueuesNothing
       /\ \A g \in GSMs :
             DeliversChange(g) /\ "event" \notin mgr.cause[g] =>
                mgr.cause[g] = {"resync"}]_vars

\* C28: a change in Secret Manager enqueues nothing, and an invocation
\* that was not started by an event and delivers the changed payload was
\* started by the resync timer or by the retry of an invocation that had
\* returned an error.
C28_OnlyResyncOrRetryDelivers ==
    [][/\ StoreChangeEnqueuesNothing
       /\ \A g \in GSMs :
             DeliversChange(g) /\ "event" \notin mgr.cause[g] =>
                /\ mgr.cause[g] # {}
                /\ mgr.cause[g] \subseteq {"resync", "retry"}]_vars

\* an invocation started by the resync timer alone has written the changed
\* payload and is about to report Synced
C28_Witness ==
    \E g \in GSMs :
        /\ StoreChanged
        /\ mgr.cause[g] = {"resync"}
        /\ rec[g].pc = "status"
        /\ rec[g].report.Reason = "Synced"
        /\ secrets # NotFound
        /\ secrets.Data = (K1 :> gsmStore[secretVersionName(entryA)])

\* the last Reconcile for g succeeded and has returned
Synced(g) ==
    /\ rec[g].pc = "idle"
    /\ rec[g].report.Reason = "Synced"
    /\ rec[g].statusErr = Nil
    /\ rec[g].result.err = Nil

\* the Secret holds what the entries of g yield from Secret Manager now
InSync(g) ==
    /\ gsm[g] # NotFound
    /\ secrets # NotFound
    /\ \E built \in {buildOpaqueSecret(gsm[g],
                        resolvePayloads(gsm[g], gsmStore, TRUE, 0).payloads)} :
          built.err = Nil /\ secrets.Data = built.secret.Data

\* after a Reconcile that succeeded the payload has changed in Secret
\* Manager, the GSMSecret is still there, and nothing else will happen
\* from outside
Stale(g) ==
    /\ Synced(g)
    /\ gsm[g] # NotFound
    /\ StoreChanged
    /\ ~InSync(g)
    /\ extLeft = 0
    /\ runsLeft > 0

PastBuild(g) == rec[g].pc \in {"applyGet", "applyCreate", "applyUpdate", "status"}

\* the remote calls of g's invocation other than those to the API server
BrokerCalls(g) ==
    SelectSeq(rec[g].calls, LAMBDA c : c \in {"newGsmClient", "AccessSecretVersion"})

\* C31: A Reconcile of a GSMSecret without entries gets past
\* resolvePayloads without an error and without a payload, having built no
\* Secret Manager client and asked for no secret version, and goes on to
\* applySecret with a Secret whose data map is empty: that is the Secret it
\* creates, and the data it puts on the Secret it updates.
C31_EmptySpecAppliesEmptySecret ==
    \A g \in GSMs :
        (PastBuild(g) /\ rec[g].gsmSecret.Spec.Secrets = <<>>)
        => /\ rec[g].phases[2] = <<"resolve", Nil>>
           /\ rec[g].phases[3] = <<"build", Nil>>
           /\ BrokerCalls(g) = <<>>
           /\ rec[g].requested = <<>>
           /\ rec[g].desired # NotFound
           /\ DOMAIN rec[g].desired.Data = {}
           /\ rec[g].pc = "applyUpdate" => DOMAIN rec[g].existing.Data = {}
           /\ (rec[g].pc = "status" /\ rec[g].report.Reason = "Synced"
                  /\ hist[g] # <<>>)
              => DOMAIN secrets.Data = {}

\* a GSMSecret without entries was reconciled over a Secret that held
\* data: the Secret has been updated and is empty
C31_Witness ==
    \E g \in GSMs :
        /\ rec[g].pc = "status"
        /\ rec[g].gsmSecret.Spec.Secrets = <<>>
        /\ rec[g].report.Reason = "Synced"
        /\ rec[g].found # NotFound
        /\ DOMAIN rec[g].found.Data # {}
        /\ secrets # NotFound
        /\ DOMAIN secrets.Data = {}

\* the place of a remote call in Reconcile's order of steps
StepOf(call) ==
    CASE call = "Get GSMSecret" -> "1 load"
      [] call = "newGsmClient" -> "2 authenticate"
      [] call = "AccessSecretVersion" -> "3 fetch"
      [] call = "Get Secret" -> "4 apply"
      [] call \in {"Create Secret", "Update Secret"} -> "5 write target"
      [] call = "Update GSMSecret status" -> "6 write status"

StepOrder ==
    <<"1 load", "2 authenticate", "3 fetch", "4 apply", "5 write target", "6 write status">>

StepIndex(call) == CHOOSE i \in 1..Len(StepOrder) : StepOrder[i] = StepOf(call)

\* the indices of g's calls that are one of the given
CallsAt(g, which) == {i \in 1..Len(rec[g].calls) : rec[g].calls[i] \in which}

\* phase ended without an error in g's invocation
PhaseDone(g, phase) == \E i \in 1..Len(rec[g].phases) : rec[g].phases[i] = <<phase, Nil>>

\* C32: The remote calls of a Reconcile come in the order load,
\* authenticate, fetch, build, write the Secret, write the status. A
\* secret version is only asked for after newGsmClient was called and did
\* not fail; the Secret is only created or updated when every entry of
\* the spec was fetched, resolvePayloads returned nil and the build
\* succeeded; and Ready=True with reason Synced is only reported after
\* applySecret wrote the Secret and returned nil in the same invocation.
C32_StepsInOrder ==
    \A g \in GSMs :
        /\ \A i, j \in 1..Len(rec[g].calls) :
               i < j => StepIndex(rec[g].calls[i]) <= StepIndex(rec[g].calls[j])
        /\ CallsAt(g, {"AccessSecretVersion"}) # {}
           => /\ CallsAt(g, {"newGsmClient"}) # {}
              /\ \A i \in 1..Len(rec[g].phases) :
                    rec[g].phases[i] # <<"resolve", "exchange KSA token for Google credentials">>
        /\ CallsAt(g, {"Get Secret", "Create Secret", "Update Secret"}) # {}
           => /\ PhaseDone(g, "resolve")
              /\ PhaseDone(g, "build")
              /\ rec[g].pc # "done"
                 => Cardinality(CallsAt(g, {"AccessSecretVersion"}))
                        = Len(rec[g].gsmSecret.Spec.Secrets)
        /\ rec[g].report = [Status |-> ConditionTrue, Reason |-> "Synced",
                            Message |-> "Secret successfully synced from GSM"]
           <=> (PhaseDone(g, "apply")
                   /\ CallsAt(g, {"Create Secret", "Update Secret"}) # {})
        /\ rec[g].report.Status = ConditionTrue => rec[g].report.Reason = "Synced"

\* a Reconcile of two entries has returned nil: it authenticated, fetched
\* both, then read and updated the Secret, then wrote the status
C32_Witness ==
    \E g \in GSMs :
        /\ rec[g].pc = "done"
        /\ rec[g].result.err = Nil
        /\ rec[g].calls = <<"Get GSMSecret", "newGsmClient", "AccessSecretVersion",
                            "AccessSecretVersion", "Get Secret", "Update Secret",
                            "Update GSMSecret status">>

\* resolvePayloads (authentication, a fetch, a validation) or
\* buildOpaqueSecret failed in invocation r
FailedBeforeApply(r) ==
    \E i \in 1..Len(r.phases) :
        r.phases[i][1] \in {"resolve", "build"} /\ r.phases[i][2] # Nil

\* C33: A Reconcile in which resolvePayloads or buildOpaqueSecret fails
\* makes no call on the target Secret, not even the Get, and no step of
\* it changes the stored Secret: the Secret is absent if it was absent,
\* and has the data, type, labels, annotations and owner references it
\* had.
C33_FailureLeavesTarget ==
    /\ [](\A g \in GSMs :
             FailedBeforeApply(rec[g])
             => /\ CallsAt(g, {"Get Secret", "Create Secret", "Update Secret"}) = {}
                /\ rec[g].desired = NotFound
                /\ rec[g].phaseErr # Nil)
    /\ [][\A g \in GSMs :
             (rec'[g] # rec[g] /\ FailedBeforeApply(rec'[g])) => secrets' = secrets]_vars

\* authentication failed and Reconcile has returned the error: the Secret
\* somebody else had stored is as it was
C33_Witness ==
    \E g \in GSMs :
        /\ rec[g].pc = "done"
        /\ rec[g].result.err = "exchange KSA token for Google credentials"
        /\ FailedBeforeApply(rec[g])
        /\ secrets \in ExtSecretChoices

\* g's last invocation did not change the data or the type of the Secret:
\* it wrote nothing, or it updated the Secret with what it had found
TargetLeftAsFound(g) ==
    \/ ~PhaseDone(g, "apply")
    \/ /\ hist[g] # <<>>
       /\ LastApply(g).op = "update"
       /\ LastApply(g).found.Data = LastApply(g).desired.Data
       /\ LastApply(g).found.Type = LastApply(g).desired.Type

\* an invocation for g has returned; when it started the informers had
\* delivered everything, nobody but the controller has done anything
\* since, and it left the data and type of the Secret as they were
QuietAfterReconcile(g) ==
    /\ rec[g].pc \in {"done", "idle"}
    /\ rec[g].calls # <<>>
    /\ mgr.atStart[g] = [ext |-> extLeft, caughtUp |-> TRUE]
    /\ TargetLeftAsFound(g)

\* the controller's status write does not pass gsmSecretChangedPredicate,
\* and its update of the Secret passes secretDataChangedPredicate exactly
\* when the data or the type are not what they were
OwnWritesFiltered ==
    \A g \in GSMs :
        /\ (rec[g].pc = "status" /\ rec'[g].pc = "done" /\ gsm'[g] # gsm[g])
           => ~gsmSecretEventPasses(gsm[g], gsm'[g])
        /\ (rec[g].pc = "applyUpdate" /\ rec'[g].pc = "status" /\ secrets' # secrets)
           => (secretEventPasses(secrets, secrets')
                  <=> (secrets'.Data # secrets.Data \/ secrets'.Type # secrets.Type))

\* the manager arms the retry only for a Reconcile that returned an error
RetryOnlyAfterError ==
    \A g \in GSMs :
        (rec[g].pc = "done" /\ rec'[g].pc = "idle" /\ rec[g].result.err = Nil)
        => mgr'.retry[g] = mgr.retry[g]

\* C34 as stated: the controller's own status write never passes the
\* GSMSecret predicate, its own update of the Secret passes the Secret
\* predicate only when data or type changed, and after a Reconcile that
\* left the data and type of the Secret unchanged the request is in the
\* queue again only by the resync timer, as long as nothing changes
\* outside the controller.
C34_QuietUntilResync ==
    /\ [][OwnWritesFiltered]_vars
    /\ [](\A g \in GSMs : QuietAfterReconcile(g) => mgr.queue[g] \subseteq {"resync"})

\* C34: the same, where the request is in the queue again only by the
\* resync timer or, when the Reconcile returned an error, by the retry of
\* the work queue.
C34_QuietUntilResyncOrRetry ==
    /\ [][OwnWritesFiltered /\ RetryOnlyAfterError]_vars
    /\ [](\A g \in GSMs :
             QuietAfterReconcile(g)
             => mgr.queue[g] \subseteq {"resync", "retry"})

\* a Reconcile updated the Secret with the data it already had and wrote
\* Ready=True; both informers have delivered the controller's writes, and
\* the queue is empty while the resync timer runs
C34_Witness ==
    \E g \in GSMs :
        /\ QuietAfterReconcile(g)
        /\ rec[g].pc = "idle"
        /\ rec[g].result.err = Nil
        /\ PhaseDone(g, "apply")
        /\ mgr.seenGSM[g] = gsm[g]
        /\ mgr.seenSecret = secrets
        /\ mgr.queue[g] = {}
        /\ mgr.resync[g]

\* the Secret new is not what old was: it is gone, or its data or its
\* type are others
SecretDrifted(old, new) ==
    new = NotFound \/ new.Data # old.Data \/ new.Type # old.Type

\* this step is the Secret informer delivering, for a Secret it knew as
\* controlled by g, that it is gone or has other data or another type
DriftDelivered(g) ==
    /\ mgr'.seenSecret # mgr.seenSecret
    /\ mgr.seenSecret # NotFound
    /\ g \in ownerRequests(mgr.seenSecret)
    /\ SecretDrifted(mgr.seenSecret, mgr'.seenSecret)

\* the Secret is there, Opaque, controlled by g, with the data the entries
\* of g yield from Secret Manager
Restored(g) ==
    /\ InSync(g)
    /\ secrets.Type = SecretTypeOpaque
    /\ g \in ownerRequests(secrets)

\* the last Reconcile for g succeeded; since then somebody else has
\* deleted the Secret controlled by g, or changed its data or type; the
\* informer has not delivered it yet, and nothing more comes from outside
Drifted(g) ==
    /\ Synced(g)
    /\ gsm[g] # NotFound
    /\ hist[g] = <<>>
    /\ mgr.seenSecret # NotFound
    /\ g \in ownerRequests(mgr.seenSecret)
    /\ SecretDrifted(mgr.seenSecret, secrets)
    /\ extLeft = 0
    /\ runsLeft > 0

\* C35: When the informer delivers that a Secret controlled by g is gone
\* or has other data or another type, a request for g is put in the
\* queue. A Reconcile that has written the Secret and reports Synced has
\* left it there, Opaque, with the data it built. And a Secret that
\* somebody else deleted or changed after a Reconcile that succeeded is
\* there again, with the data the entries yield from Secret Manager,
\* unless a later Reconcile returns an error.
C35_DriftRepaired ==
    /\ [][\A g \in GSMs : DriftDelivered(g) => "event" \in mgr'.queue[g]]_vars
    /\ [](\A g \in GSMs :
             (rec[g].pc = "status" /\ rec[g].report.Reason = "Synced" /\ hist[g] # <<>>)
             => /\ secrets # NotFound
                /\ secrets.Data = rec[g].desired.Data
                /\ secrets.Type = SecretTypeOpaque
                /\ g \in ownerRequests(secrets))
    /\ \A g \in GSMs : Drifted(g) ~> (Restored(g) \/ rec[g].result.err # Nil)

\* somebody made the Secret of g a TLS Secret; the event started a
\* Reconcile, which found it so and has made it Opaque again
C35_Witness ==
    \E g \in GSMs :
        /\ Synced(g)
        /\ Restored(g)
        /\ mgr.cause[g] = {"event"}
        /\ hist[g] # <<>>
        /\ LastApply(g).found # NotFound
        /\ LastApply(g).found.Type = SecretTypeTLS
        /\ g \in ownerRequests(LastApply(g).found)

\* the owner references of object that name a controller
ControllersOf(object) ==
    IF object = NotFound THEN {}
    ELSE {object.OwnerReferences[i] : i \in
             {j \in 1..Len(object.OwnerReferences) : object.OwnerReferences[j].Controller}}

\* object is controlled by somebody other than GSMSecret g
ControlledByOther(object, g) ==
    \E ref \in ControllersOf(object) : ~(ref.Kind = "GSMSecret" /\ ref.Name = g)

\* the indices in the references of object that name a controller
ControllerIndices(object) ==
    IF object = NotFound THEN {}
    ELSE {j \in 1..Len(object.OwnerReferences) : object.OwnerReferences[j].Controller}

\* C36: The Secret never has two controller references. When applySecret
\* finds the Secret controlled by somebody else, the invocation ends with
\* ApplyFailed without a Create or Update, and the step leaves the stored
\* Secret as it is. And whoever controls the Secret goes on controlling
\* it, whatever the two Reconciles do and in whatever order: the data,
\* type and references of a Secret one GSMSecret controls are never
\* written by the Reconcile of the other.
C36_OneController ==
    /\ [](/\ Cardinality(ControllerIndices(secrets)) <= 1
          /\ \A g \in Rivals :
                (rec[g].found # NotFound /\ ControlledByOther(rec[g].found, g))
                => /\ rec[g].pc = "status"
                   /\ rec[g].report.Status = ConditionFalse
                   /\ rec[g].report.Reason = "ApplyFailed"
                   /\ rec[g].phaseErr # Nil
                   /\ CallsAt(g, {"Create Secret", "Update Secret"}) = {})
    /\ [][\A g \in Rivals :
             /\ (rec[g].pc = "applyGet" /\ rec'[g] # rec[g] /\ ControlledByOther(secrets, g))
                => (secrets' = secrets /\ rec'[g].pc = "status")
             /\ (rec'[g] # rec[g] /\ ControlledByOther(secrets, g))
                => secrets' = secrets
             /\ ControllersOf(secrets) # {} => ControllersOf(secrets') = ControllersOf(secrets)]_vars

\* both GSMSecrets were reconciled at the same time over a Secret nobody
\* controlled: g1 has taken it, the Update of g2 was refused, and g2
\* reports ApplyFailed
C36_Witness ==
    /\ rec["g1"].pc = "status"
    /\ rec["g1"].report.Reason = "Synced"
    /\ rec["g2"].pc = "status"
    /\ rec["g2"].report.Reason = "ApplyFailed"
    /\ rec["g2"].found # NotFound
    /\ ControllersOf(rec["g2"].found) = {}
    /\ ControllersOf(secrets) = {controllerRef(gsm["g1"])}
    /\ secrets.Data = (K1 :> payV1)

\* g2 found the Secret controlled by g1 and reports ApplyFailed
C36_WitnessRefused ==
    /\ rec["g2"].pc = "status"
    /\ rec["g2"].report.Reason = "ApplyFailed"
    /\ rec["g2"].phaseErr = "failed to set controller reference on existing secret"
    /\ ControllersOf(rec["g2"].found) = {controllerRef(gsm["g1"])}
    /\ secrets.Data = (K1 :> payV1)

\* this step is the status write of g's invocation failing after
\* applySecret had returned nil
SyncedStatusWriteFails(g) ==
    /\ rec[g].pc = "status"
    /\ rec'[g].pc = "done"
    /\ rec[g].report.Reason = "Synced"
    /\ rec'[g].statusErr # Nil

\* C37: When Status().Update fails after applySecret has written the
\* Secret, Reconcile returns the error of the status write with no
\* RequeueAfter; the step changes neither the Secret, which keeps the
\* data just applied, nor the stored GSMSecret, whose Ready condition and
\* observedGeneration stay what they were.
C37_StatusWriteFailure ==
    [][\A g \in GSMs :
          SyncedStatusWriteFails(g)
          => /\ rec'[g].result = [err |-> rec'[g].statusErr, RequeueAfter |-> 0]
             /\ rec'[g].phaseErr = Nil
             /\ secrets' = secrets
             /\ hist[g] # <<>> => (secrets' # NotFound
                                      /\ secrets'.Data = rec[g].desired.Data)
             /\ gsm'[g] = gsm[g]]_vars

\* the Secret was created with the payload, the status write was refused,
\* and Reconcile has returned the error: the GSMSecret has no Ready
\* condition yet
C37_Witness ==
    \E g \in GSMs :
        /\ rec[g].pc = "done"
        /\ rec[g].report.Reason = "Synced"
        /\ rec[g].statusErr # Nil
        /\ rec[g].result = [err |-> rec[g].statusErr, RequeueAfter |-> 0]
        /\ hist[g] # <<>>
        /\ LastApply(g).op = "create"
        /\ secrets # NotFound
        /\ secrets.Data = (K1 :> payV1)
        /\ gsm[g] # NotFound
        /\ ReadyConditions(gsm[g]) = <<>>

\* the operator is not in trusted-subsystem mode and WIFAUDIENCE is not
\* set (the GSMSecrets of AuthSpec carry no annotation)
NoAudience == ~TrustedMode /\ getWIFAudience(env, <<>>).err # Nil

\* C38: Without trusted-subsystem mode and without an audience, no
\* invocation comes to getInClusterKubeClient: the once of the client is
\* never entered, no TokenRequest, no STS exchange and no
\* AccessSecretVersion is made, no Secret Manager client is built, and an
\* invocation of a GSMSecret with entries ends with FetchFailed and the
\* audience error.
C38_NoAudienceFailsFirst ==
    NoAudience =>
        /\ kube = KubeNew
        /\ \A w \in Workers :
              /\ work[w].pc \in {"idle", "applyGet", "applyCreate", "applyUpdate",
                                  "status", "done"}
              /\ work[w].kubeGot = <<>>
              /\ work[w].token = NoToken
              /\ work[w].creds = NoCreds
              /\ work[w].client = NoClient
              /\ \A i \in 1..Len(work[w].calls) :
                    work[w].calls[i] \notin {"CreateToken", "ExchangeToken", "NewClient",
                                              "AccessSecretVersion"}
              /\ (work[w].pc # "done" /\ work[w].gsmSecret # NotFound
                     /\ work[w].gsmSecret.Spec.Secrets # <<>>)
                 => /\ work[w].pc = "status"
                    /\ work[w].reason = "FetchFailed"
                    /\ work[w].phaseErr = "get WIF audience: WIFAudience not set"

\* an invocation of a GSMSecret with an entry has failed on the audience,
\* written its status and returned the error; its only calls were the
\* Get of the GSMSecret and the status write
C38_Witness ==
    /\ NoAudience
    /\ \E w \in Workers :
          /\ work[w].pc = "done"
          /\ work[w].reason = "FetchFailed"
          /\ work[w].returned = "get WIF audience: WIFAudience not set"
          /\ work[w].calls = <<"Get GSMSecret", "Update GSMSecret status">>

\* the conditions of a GSMSecret object that are not Ready conditions
OtherConditions(object) ==
    SelectSeq(object.Status.Conditions, LAMBDA c : c.Type # "Ready")

\* this step is the status write of g's invocation, accepted by the API
\* server
StatusReported(g) ==
    /\ rec[g].pc = "status"
    /\ rec'[g].pc = "done"
    /\ rec'[g].statusErr = Nil

\* C39: A GSMSecret that had no Ready condition when the controller first
\* saw it never has more than one, and has exactly one after every status
\* write the API server accepted, however many there were; the
\* conditions of other types are the ones it had; and after each such
\* write status.observedGeneration and the Ready condition's
\* observedGeneration are both the generation of the GSMSecret the
\* Reconcile had read, which is the stored one at the time of the write.
C39_OneReadyCondition ==
    /\ [](\A g \in GSMs :
             gsm[g] # NotFound
             => /\ Len(ReadyConditions(gsm[g])) <= 1
                /\ OtherConditions(gsm[g]) = <<otherCondition>>
                /\ ReadyConditions(gsm[g]) # <<>>
                   => ReadyConditions(gsm[g])[1].ObservedGeneration
                          = gsm[g].Status.ObservedGeneration
                /\ gsm[g].Status.ObservedGeneration <= gsm[g].Generation)
    /\ [][\A g \in GSMs :
             StatusReported(g)
             => /\ Len(ReadyConditions(gsm'[g])) = 1
                /\ ReadyConditions(gsm'[g])[1].ObservedGeneration = rec[g].gsmSecret.Generation
                /\ gsm'[g].Status.ObservedGeneration = rec[g].gsmSecret.Generation
                /\ gsm'[g].Generation = rec[g].gsmSecret.Generation
                /\ ReadyConditions(gsm'[g])[1].Status = rec[g].report.Status
                /\ ReadyConditions(gsm'[g])[1].Reason = rec[g].report.Reason]_vars

\* the spec was changed before the last status report: the one Ready
\* condition, after the condition somebody else had set, carries the
\* second generation, and so does status.observedGeneration
C39_WitnessGeneration ==
    \E g \in GSMs :
        /\ rec[g].pc = "done"
        /\ rec[g].statusErr = Nil
        /\ runsLeft = 0
        /\ gsm[g] # NotFound
        /\ gsm[g].Generation = 2
        /\ gsm[g].Status.ObservedGeneration = 2
        /\ Len(gsm[g].Status.Conditions) = 2
        /\ gsm[g].Status.Conditions[1] = otherCondition
        /\ gsm[g].Status.Conditions[2].Type = "Ready"
        /\ gsm[g].Status.Conditions[2].ObservedGeneration = 2

\* two status reports with the same status, the second later than the
\* first: the Ready condition of the first was replaced where it stood,
\* keeping its transition time
C39_Witness ==
    \E g \in GSMs :
        /\ rec[g].pc = "done"
        /\ rec[g].statusErr = Nil
        /\ rec[g].reportedAt = 1
        /\ gsm[g] # NotFound
        /\ Len(gsm[g].Status.Conditions) = 2
        /\ gsm[g].Status.Conditions[1] = otherCondition
        /\ gsm[g].Status.Conditions[2].Type = "Ready"
        /\ gsm[g].Status.Conditions[2].LastTransitionTime = 0
        /\ gsm[g].Status.ObservedGeneration = gsm[g].Generation

============================================================================
